---- MODULE Spec2Model ----
(***************************************************************************)
(* A model of landtable's transactional execution layer                    *)
(* (landtable/backends/postgres_backend.py, landtable/backends/abstract.py)*)
(* and of its metadata cache and watcher (landtable/state/__init__.py).    *)
(*                                                                         *)
(* Two specifications share the module's variables:                        *)
(*   SpecTxn    one request task running PostgresBackend.exec_transaction, *)
(*              one transaction after another;                             *)
(*   SpecState  LandtableState: connect, the watcher task, fetch_workspace, *)
(*              fetch_table, fetch_database, the store's writes, shutdown.  *)
(* Each action is the code between two suspension points (await) of an     *)
(* asyncio task: asyncio runs one task at a time, so that code is atomic.  *)
(***************************************************************************)
EXTENDS Naturals, Sequences, FiniteSets, TLC

VARIABLES
  \* ---- PostgresBackend (postgres_backend.py)
  pools,        \* PostgresBackend.pools: url -> pool id, or None
  poolsMade,    \* number of pools asyncpg.create_pool has built
  checkedOut,   \* connections acquired from a pool and not released
  conns,        \* connections the pools have opened
  dbRows,       \* rows of the physical table that are committed
  tx,           \* the request task inside exec_transaction
  txnsRun,      \* number of exec_transaction calls started
  fcp,          \* the request tasks inside fetch_connection_pool
  \* ---- LandtableState (state/__init__.py)
  now,          \* time.monotonic(), in seconds
  kv,           \* the key-value store: key -> value, or None
  events,       \* watch_prefix(b"/landtable"): events not yet delivered
  kvWrites,     \* number of writes made to the key-value store
  caches,       \* workspace_cache, table_cache, database_cache: each
                \* str -> CachedEntry, or None
  life,         \* the LandtableState object: task_obj, db, resolver
  req,          \* the request task inside fetch_workspace / fetch_database
  calls,        \* number of fetch_* calls started
  \* ---- functions called on their own
  rc,           \* a call of LandtableTable.resolve_columns
  idp,          \* a call of Identifier.parse_from / parse_from_ns
  trc,          \* CONTEXTVAR of tracing.py and a call that reads it
  fm            \* a call of Formula, to_sql or the query building of _exec_op

backendVars == <<pools, poolsMade, checkedOut, conns, dbRows, tx, txnsRun, fcp>>
stateVars == <<now, kv, events, kvWrites, caches, life, req, calls>>
pureVars == <<rc, idp, trc, fm>>
vars == <<backendVars, stateVars, pureVars>>

(***************************************************************************)
(* Python values.  An Optional[T] is the empty set (None) or {v}.          *)
(***************************************************************************)
None == {}
Some(v) == {v}
The(o) == CHOOSE v \in o : TRUE

\* A raised exception: its class, and for a BaseAPIException its type and
\* code fields (exceptions.py); any other exception has neither and the
\* outer adapter answers 500.
APIBadRequestException ==
  [class |-> "APIBadRequestException", type |-> "BAD_REQUEST", code |-> 400]
APINotFoundException ==
  [class |-> "APINotFoundException", type |-> "NOT_FOUND", code |-> 404]
PyException(class) == [class |-> class, type |-> "INTERNAL_ERROR", code |-> 500]

\* What the caller of a call that returned gets, in the shape of an exception.
Returned == [class |-> "return", type |-> "OK", code |-> 200]

Raise(exc) == [kind |-> "raise", exc |-> exc]
Return(value, rows) == [kind |-> "return", value |-> value, rows |-> rows]

(***************************************************************************)
(* Bounds of the model.                                                    *)
(***************************************************************************)
MaxOps == 2        \* longest transaction (number of ops)
MaxTxns == 2       \* exec_transaction calls in one behaviour
MaxPoolCalls == 4  \* fetch_connection_pool calls in one behaviour

Urls == {"pg://a", "pg://b"}      \* config.connection_url
RowIds == {"r1", "r2"}            \* uuids of the rows of the physical table

(***************************************************************************)
(* Transaction operations (abstract.py).  An operation is a record with    *)
(* exactly the fields its pydantic model declares, so DOMAIN op is the set *)
(* of attributes that can be read from it.                                 *)
(***************************************************************************)
FailureStrategy(exec_target, fail_type) ==
  [exec_target |-> exec_target, order_by |-> "1", fail_type |-> fail_type]

FailureStrategies ==
  { FailureStrategy(e, f) : e \in {None, Some(1)}, f \in {None, Some("eq")} }

RowTarget(id) == [kind |-> "RowTarget", id |-> id]
FormulaTarget(formula) == [kind |-> "FormulaTarget", formula |-> formula]

Fetch(target, fs) ==
  [type |-> "fetch", target |-> target, limit |-> 1, sort |-> "1",
   fields |-> None, failure_strategy |-> fs]
Delete(target, fs) ==
  [type |-> "delete", target |-> target, limit |-> 1, sort |-> "1",
   fields |-> None, failure_strategy |-> fs]
Create(row) == [type |-> "create", row |-> row]
UpdateByFormula(target) ==
  [type |-> "updateByFormula", target |-> target, exec_formula |-> {}]
Update(target, row) == [type |-> "update", target |-> target, row |-> row]

\* LandtableTable.exposed_fields of the table the transactions run on, by
\* name, and a key that names no field.
ExposedNames == {"name"}
RowKeys == {"name", "nonexistent_field"}

\* The operations a request may carry.
OpPool ==
  { Fetch(RowTarget("r1"), fs) : fs \in FailureStrategies }
  \cup { Delete(RowTarget("r1"), fs) :
           fs \in {FailureStrategy(None, None), FailureStrategy(Some(1), None)} }
  \cup { [Fetch(RowTarget("r1"), FailureStrategy(None, None))
            EXCEPT !.sort = "{zz}"],
          [Delete(RowTarget("r1"), FailureStrategy(None, None))
            EXCEPT !.failure_strategy.order_by = "{zz}"],
          Fetch(FormulaTarget("{zz} = 1"), FailureStrategy(None, None)) }
  \cup { Create({k}) : k \in RowKeys }
  \cup { Update(RowTarget("r1"), {"name"}), UpdateByFormula(RowTarget("r1")) }

RECURSIVE SeqsUpTo(_, _)
SeqsUpTo(S, n) ==
  IF n = 0 THEN {<<>>}
  ELSE LET shorter == SeqsUpTo(S, n - 1)
       IN shorter \cup { Append(s, x) : s \in shorter, x \in S }

\* LandtableTransaction.ops, for the transactions a request may submit.
Transactions == SeqsUpTo(OpPool, MaxOps)

\* Reading attribute `name` of a pydantic model: AttributeError unless the
\* model declares the field.
HasAttr(op, name) == name \in DOMAIN op

\* table.fetch_replica_config(config.id) of the table the transactions run on.
ReplicaConfig ==
  [table_name |-> "t", id_column |-> Some("id"),
   created_at_column |-> Some("created_at")]

\* parse_target: the predicate of a RowTarget; a FormulaTarget goes to
\* to_sql(formula, env), which is called here with a third positional
\* argument and so raises TypeError.
parse_target(target) ==
  IF target.kind = "RowTarget" THEN Return([id_is |-> target.id], {})
  ELSE IF target.kind = "FormulaTarget" THEN Raise(PyException("TypeError"))
  ELSE Raise(PyException("NotImplementedError"))

\* The rows `query` selects: those the predicate holds of, LIMIT op.limit
\* (limit is 1 in every operation of OpPool).
Selected(predicate, rows) == rows \cap {predicate.id_is}

\* The mutant of exec_op in which an operation that is not a Fetch or a
\* Delete returns an empty RowResult.
exec_op_SilentSuccess(op, rows) ==
  IF op.type \in {"fetch", "delete"}
  THEN Raise(PyException("AttributeError"))
  ELSE Return({}, rows)

\* The mutant of exec_op that does not read op.execTarget and op.failType:
\* a Fetch or a Delete goes straight to its query.
exec_op_NoAttributeRead(op, rows) ==
  IF op.type \in {"fetch", "delete"}
  THEN LET predicate == parse_target(op.target)
       IN IF predicate.kind = "raise" THEN predicate
          ELSE LET result == Selected(predicate.value, rows)
               IN IF op.type = "delete"
                  THEN Return(result, rows \ result)
                  ELSE Return(result, rows)
  ELSE Raise(PyException("NotImplementedError"))

\* PostgresBackend._exec_op on a connection whose transaction sees `rows`:
\* what it raises, or the rows of the RowResult it returns and the rows the
\* transaction sees afterwards.
exec_op(op, rows) ==
  IF op.type \in {"fetch", "delete"}
  THEN IF ~HasAttr(op, "execTarget")
       THEN Raise(PyException("AttributeError"))
       ELSE IF op.execTarget # None /\ ~HasAttr(op, "failType")
       THEN Raise(PyException("AttributeError"))
       ELSE IF op.execTarget # None /\ op.failType = None
       THEN Raise(APIBadRequestException)
       ELSE IF ReplicaConfig.id_column = None
               \/ ReplicaConfig.created_at_column = None
       THEN Raise(PyException("Exception"))
       ELSE LET predicate == parse_target(op.target)
            IN IF predicate.kind = "raise" THEN predicate
               ELSE LET result == Selected(predicate.value, rows)
                    IN IF op.type = "delete"
                       THEN Return(result, rows \ result)
                       ELSE Return(result, rows)
  ELSE Raise(PyException("NotImplementedError"))

\* The mutant of RunOps that starts every remaining operation at once
\* (asyncio.gather) and then collects the outcomes in order.
RunOps_Gather(ops, i, conn, rows, acc) ==
  LET starts == [k \in 1..(Len(ops) - i + 1) |->
                   [ev |-> "start", op |-> i + k - 1, conn |-> conn]]
      ends == [k \in 1..(Len(ops) - i + 1) |-> [ev |-> "end", op |-> i + k - 1, conn |-> conn]]
      first == IF i > Len(ops) THEN Return({}, rows) ELSE exec_op(ops[i], rows)
  IN [err |-> IF first.kind = "raise" THEN Some(first.exc) ELSE None,
      failed |-> IF first.kind = "raise" THEN i ELSE 0,
      results |-> acc.results,
      log |-> acc.log \o starts \o ends,
      rows |-> rows]

\* The body of exec_transaction: the list comprehension that awaits
\* self._exec_op for each op in turn on `conn`.  It ends at the first op
\* that raises.  log records when each op was started and ended.
RECURSIVE RunOps(_, _, _, _, _)
RunOps(ops, i, conn, rows, acc) ==
  IF i > Len(ops)
  THEN [err |-> None, failed |-> 0, results |-> acc.results,
        log |-> acc.log, rows |-> rows]
  ELSE LET out == exec_op(ops[i], rows)
           log == acc.log \o <<[ev |-> "start", op |-> i, conn |-> conn],
                               [ev |-> "end", op |-> i, conn |-> conn]>>
       IN IF out.kind = "raise"
          THEN [err |-> Some(out.exc), failed |-> i, results |-> acc.results,
                log |-> log, rows |-> rows]
          ELSE RunOps(ops, i + 1, conn, out.rows,
                      [results |-> Append(acc.results,
                                          [op |-> i, rows |-> out.value,
                                           left |-> out.rows]),
                       log |-> log])

(***************************************************************************)
(* PostgresBackend.exec_transaction, one action per suspension point.      *)
(***************************************************************************)
TxIdle ==
  [pc |-> "idle", ops |-> <<>>, read_only |-> FALSE, url |-> None,
   pool |-> None, conn |-> None,
   phys |-> "none", snapshot |-> {}, rows |-> {}, results |-> <<>>,
   err |-> None, failed |-> 0, log |-> <<>>, out |-> None]

\* The request tasks that call fetch_connection_pool at the same time, each
\* from its own exec_transaction.
Callers == {"c1", "c2"}
FcpIdle == [pc |-> "idle", url |-> None, got |-> None, after |-> None,
            built |-> FALSE]
\* task: each caller's position; made: the pools create_pool has built for
\* a url; first: the pool the first completed call for a url returned;
\* n: the number of calls started.
FcpInit ==
  [task |-> [c \in Callers |-> FcpIdle],
   made |-> [u \in Urls |-> {}],
   first |-> [u \in Urls |-> None],
   n |-> 0]

BackendInit ==
  /\ pools = [u \in Urls |-> None]
  /\ poolsMade = 0
  /\ checkedOut = {}
  /\ conns = {}
  /\ dbRows = RowIds
  /\ tx = TxIdle
  /\ txnsRun = 0
  /\ fcp = FcpInit

\* The mutant of aexit that commits whatever the body did.
aexit_AlwaysCommit(err) == "commit"

\* Leaving `async with connection.transaction(...)`: COMMIT when the body
\* ended normally, ROLLBACK when it raised.
aexit(err) == IF err = None THEN "commit" ELSE "rollback"

\* pool.acquire(): an idle connection of the pool, or a new one.
acquire(pool) ==
  LET idle == {c \in conns : c.pool = pool} \ checkedOut
  IN IF idle # {} THEN CHOOSE c \in idle : TRUE
     ELSE [pool |-> pool, n |-> Cardinality(conns) + 1]

\* exec_transaction is called for a table whose read_only flag is
\* `read_only` (nothing in the call reads the flag): fetch_connection_pool
\* finds the pool of the url in self.pools and goes on to pool.acquire(), or
\* awaits asyncpg.create_pool(url).
TxStart(ops, url, read_only) ==
  /\ tx.pc = "idle"
  /\ txnsRun < MaxTxns
  /\ txnsRun' = txnsRun + 1
  /\ tx' = [TxIdle EXCEPT !.ops = ops, !.read_only = read_only,
                          !.url = Some(url), !.pool = pools[url],
                          !.pc = IF pools[url] # None THEN "acquire"
                                 ELSE "create_pool"]
  /\ UNCHANGED <<pools, poolsMade, checkedOut, conns, dbRows>>
  /\ UNCHANGED <<fcp, stateVars, pureVars>>

\* asyncpg.create_pool(url) returns: the new pool is stored in self.pools
\* and returned; exec_transaction awaits pool.acquire().
TxPoolCreated ==
  /\ tx.pc = "create_pool"
  /\ poolsMade' = poolsMade + 1
  /\ pools' = [pools EXCEPT ![The(tx.url)] = Some(poolsMade + 1)]
  /\ tx' = [tx EXCEPT !.pool = Some(poolsMade + 1), !.pc = "acquire"]
  /\ UNCHANGED <<checkedOut, conns, dbRows, txnsRun>>
  /\ UNCHANGED <<fcp, stateVars, pureVars>>

\* pool.acquire() returns the connection; connection.transaction() is
\* entered, which awaits BEGIN.
TxAcquired ==
  /\ tx.pc = "acquire"
  /\ LET c == acquire(The(tx.pool))
     IN /\ conns' = conns \cup {c}
        /\ checkedOut' = checkedOut \cup {c}
        /\ tx' = [tx EXCEPT !.conn = Some(c), !.pc = "begin"]
  /\ UNCHANGED <<pools, poolsMade, dbRows, txnsRun>>
  /\ UNCHANGED <<fcp, stateVars, pureVars>>

\* BEGIN returns and the body runs: each _exec_op runs up to its first
\* suspension point.  Every _exec_op raises before it reaches one, so the
\* body ends in this step and __aexit__ awaits COMMIT or ROLLBACK.
TxBegun ==
  /\ tx.pc = "begin"
  /\ LET body == RunOps(tx.ops, 1, The(tx.conn), dbRows,
                        [results |-> <<>>, log |-> <<>>])
     IN tx' = [tx EXCEPT !.phys = "open", !.snapshot = dbRows,
                         !.rows = body.rows, !.results = body.results,
                         !.err = body.err, !.failed = body.failed,
                         !.log = body.log, !.pc = aexit(body.err)]
  /\ UNCHANGED <<pools, poolsMade, checkedOut, conns, dbRows, txnsRun>>
  /\ UNCHANGED <<fcp, stateVars, pureVars>>

\* COMMIT returns: the transaction's rows are the table's rows, and
\* exec_transaction returns the list of results.
TxCommitted ==
  /\ tx.pc = "commit"
  /\ dbRows' = tx.rows
  /\ tx' = [tx EXCEPT !.phys = "committed", !.pc = "done",
                      !.out = IF tx.err = None THEN Some(Returned) ELSE tx.err]
  /\ UNCHANGED <<pools, poolsMade, checkedOut, conns, txnsRun>>
  /\ UNCHANGED <<fcp, stateVars, pureVars>>

\* ROLLBACK returns: the exception of the body leaves exec_transaction.
TxRolledBack ==
  /\ tx.pc = "rollback"
  /\ tx' = [tx EXCEPT !.phys = "rolled_back", !.pc = "done", !.out = tx.err]
  /\ UNCHANGED <<pools, poolsMade, checkedOut, conns, dbRows, txnsRun>>
  /\ UNCHANGED <<fcp, stateVars, pureVars>>

\* The caller cancels the task while it is suspended: CancelledError is
\* raised at the await.  A statement (BEGIN, COMMIT, ROLLBACK) that was
\* in flight has taken effect on the server or has not.
TxCancel ==
  /\ tx.pc \in {"create_pool", "acquire", "begin", "commit", "rollback"}
  /\ \E landed \in BOOLEAN :
       /\ tx' = [tx EXCEPT
                   !.pc = "done",
                   !.out = Some(PyException("CancelledError")),
                   !.phys = CASE tx.pc = "begin" /\ landed -> "open"
                              [] tx.pc = "commit" /\ landed -> "committed"
                              [] tx.pc = "rollback" /\ landed -> "rolled_back"
                              [] OTHER -> tx.phys]
       /\ dbRows' = IF tx.pc = "commit" /\ landed THEN tx.rows ELSE dbRows
  /\ UNCHANGED <<pools, poolsMade, checkedOut, conns, txnsRun>>
  /\ UNCHANGED <<fcp, stateVars, pureVars>>

\* The caller has the result or the exception; the task is free for the
\* next request.
TxFinish ==
  /\ tx.pc = "done"
  /\ tx' = TxIdle
  /\ UNCHANGED <<pools, poolsMade, checkedOut, conns, dbRows, txnsRun>>
  /\ UNCHANGED <<fcp, stateVars, pureVars>>

BackendNext ==
  \/ \E ops \in Transactions, url \in Urls, read_only \in BOOLEAN :
       TxStart(ops, url, read_only)
  \/ TxPoolCreated
  \/ TxAcquired
  \/ TxBegun
  \/ TxCommitted
  \/ TxRolledBack
  \/ TxCancel
  \/ TxFinish

(***************************************************************************)
(* LandtableState (state/__init__.py): strings, keys and values.           *)
(***************************************************************************)
MaxTime == 12      \* the clock stops here
TickStep == 5      \* seconds between two readings of the clock
MaxKvWrites == 1   \* writes to the key-value store in one behaviour
MaxCalls == 3      \* fetch_* calls in one behaviour

cache_expiry_time == 10

\* str(x) of an Identifier is its __repr__, "{namespace}:{uuid.hex}".
IdStr(namespace, hex) == namespace \o ":" \o hex
\* str(x) of a bytes object is its repr, b'...'.
BytesStr(bytes) == "b'" \o bytes \o "'"
\* s[:4] of a Python str.
Prefix4(s) == SubSeq(s, 1, IF Len(s) < 4 THEN Len(s) ELSE 4)

WorkspaceId == IdStr("lwk", "X")
\* A second workspace, which holds no table and no table alias.
OtherWorkspaceId == IdStr("lwk", "Y")
TableId == IdStr("ltb", "T")
DatabaseId == IdStr("ldb", "D")

\* Keys of the store, as the segments key.split(b"/")[2:] of
\* /landtable/<segment>/...
MetaKey == <<"meta">>
WorkspaceKey(id) == <<"workspaces", id, "meta">>
WorkspaceAliasKey(name) == <<"workspaceAliases", name>>
TableKey(ws, id) == <<"workspaces", ws, "tables", id>>
TableAliasKey(ws, name) == <<"workspaces", ws, "tableAliases", name>>
DatabaseKey(id) == <<"databases", id>>

\* The models (state/models.py) the stored JSON documents validate to.
LandtableWorkspace(name, replica) ==
  [id |-> WorkspaceId, name |-> name, primary_replica |-> replica]
LandtableTable(read_only) ==
  [id |-> TableId, name |-> "t", read_only |-> read_only]
BaseLandtableDatabase(name) ==
  [id |-> DatabaseId, name |-> name, type |-> "postgres_v0"]
LandtableMeta == [version |-> 1, auth_modules |-> <<>>]

\* A workspace's name is any str: "a", "b", or the text b'lwk:X'.
WorkspaceValues ==
  { LandtableWorkspace(n, DatabaseId) : n \in {"a", "b", BytesStr(WorkspaceId)} }
TableValues == { LandtableTable(ro) : ro \in BOOLEAN }
DatabaseValues == { BaseLandtableDatabase(n) : n \in {"d", "e"} }

\* What a configuration push may write, key by key.
Writable ==
  [k \in {WorkspaceKey(WorkspaceId), TableKey(WorkspaceId, TableId),
          DatabaseKey(DatabaseId), MetaKey} |->
     IF k = WorkspaceKey(WorkspaceId) THEN WorkspaceValues
     ELSE IF k = TableKey(WorkspaceId, TableId) THEN TableValues
     ELSE IF k = DatabaseKey(DatabaseId) THEN DatabaseValues
     ELSE {LandtableMeta}]

\* The store when the process starts: one workspace with two aliases, one
\* table with its alias, one database.
KvInit ==
  [k \in DOMAIN Writable \cup
         {WorkspaceAliasKey("a"), WorkspaceAliasKey("b"),
          TableAliasKey(WorkspaceId, "t")} |->
     IF k = WorkspaceKey(WorkspaceId) THEN Some(LandtableWorkspace("a", DatabaseId))
     ELSE IF k = TableKey(WorkspaceId, TableId) THEN Some(LandtableTable(FALSE))
     ELSE IF k = DatabaseKey(DatabaseId) THEN Some(BaseLandtableDatabase("d"))
     ELSE IF k = MetaKey THEN Some(LandtableMeta)
     ELSE IF k = TableAliasKey(WorkspaceId, "t") THEN Some(TableId)
     ELSE Some(WorkspaceId)]

\* self.db.get(key): the stored value, or None.
KvGet(key) == IF key \in DOMAIN kv THEN kv[key] ELSE None

\* The three caches, and the strings that can key them.
Kinds == {"workspace", "table", "database"}
CacheKeys ==
  {WorkspaceId, TableId, DatabaseId, "a", "b", "t",
   BytesStr(WorkspaceId), BytesStr(TableId), BytesStr(DatabaseId)}

CachedEntry(created_at, inner) == [created_at |-> created_at, inner |-> inner]

\* The calls a request may make: fetch_workspace(handle),
\* fetch_table(workspace_id, handle), fetch_database(handle).  A handle is
\* a str, or an Identifier (isId) whose str is s.
Handle(isId, s) == [isId |-> isId, s |-> s]
Calls ==
  { [kind |-> "workspace", ws |-> WorkspaceId, handle |-> h] :
      h \in {Handle(TRUE, WorkspaceId), Handle(FALSE, "a"), Handle(FALSE, "b")} }
  \cup { [kind |-> "table", ws |-> ws, handle |-> h] :
      ws \in {WorkspaceId, OtherWorkspaceId},
      h \in {Handle(TRUE, TableId), Handle(FALSE, "t")} }
  \cup { [kind |-> "database", ws |-> WorkspaceId,
          handle |-> Handle(TRUE, DatabaseId)] }

(***************************************************************************)
(* LandtableState: the cache lookups and the watcher's dispatch.           *)
(***************************************************************************)
\* self.<kind>_cache.get(key)
Lookup(kind, key) == IF key \in CacheKeys THEN caches[kind][key] ELSE None

\* The mutant of Fresh that keeps an entry for good.
Fresh_Forever(entry, t) == TRUE

\* time.monotonic() - entry.created_at < self.cache_expiry_time
Fresh(entry, t) == t - entry.created_at < cache_expiry_time

\* Whether the handle is looked up as an alias first: it is a str, not an
\* Identifier, and does not begin with lwk: (ltb: for a table).
\* fetch_database takes an identifier only.
NeedsAlias(call) ==
  /\ call.kind # "database"
  /\ ~call.handle.isId
  /\ Prefix4(call.handle.s) # (IF call.kind = "workspace" THEN "lwk:" ELSE "ltb:")

AliasKeyOf(call) ==
  IF call.kind = "workspace" THEN WorkspaceAliasKey(call.handle.s)
  ELSE TableAliasKey(call.ws, call.handle.s)

MainKeyOf(call, id) ==
  IF call.kind = "workspace" THEN WorkspaceKey(id)
  ELSE IF call.kind = "table" THEN TableKey(call.ws, id)
  ELSE DatabaseKey(id)

\* The mutant of InsertKeys that caches a workspace or a table by id only.
InsertKeys_IdOnly(call, resolved) ==
  IF call.kind = "database" THEN {call.handle.s} ELSE {resolved.id}

\* The keys a cache miss stores its entry under: str(resolved.id) and
\* resolved.name; fetch_database stores under str(database), the argument.
InsertKeys(call, resolved) ==
  IF call.kind = "database" THEN {call.handle.s}
  ELSE {resolved.id, resolved.name}

\* The cache slot the watcher refreshes for an event on `key`: the cache,
\* and str() of the bytes segment that names the object.
WatchSlot(key) ==
  IF key = <<"meta">> THEN [cache |-> "meta", key |-> ""]
  ELSE IF Len(key) = 3 /\ key[1] = "workspaces" /\ key[3] = "meta"
  THEN [cache |-> "workspace", key |-> BytesStr(key[2])]
  ELSE IF Len(key) = 2 /\ key[1] = "databases"
  THEN [cache |-> "database", key |-> BytesStr(key[2])]
  ELSE IF Len(key) = 4 /\ key[1] = "workspaces" /\ key[3] = "tables"
  THEN [cache |-> "table", key |-> BytesStr(key[4])]
  ELSE [cache |-> "unknown", key |-> ""]

\* The mutant of InsertStamp that stamps the entry with the time of the
\* lookup that missed.
InsertStamp_AtLookup(t0, t) == t0

\* created_at of the entry a miss stores: time.monotonic() read when the
\* entry is built, after the answer of the store arrived at time t (the
\* lookup was at t0).
InsertStamp(t0, t) == t

ReqIdle ==
  [pc |-> "idle", call |-> None, id |-> "", resp |-> None, reads |-> 0,
   path |-> "", found |-> None, t0 |-> 0, t1 |-> 0, out |-> None]

Ok(value) == [status |-> "ok", exc |-> Returned, value |-> Some(value)]
NotFound == [status |-> "raise", exc |-> APINotFoundException, value |-> None]

StateInit ==
  /\ now = 0
  /\ kv = KvInit
  /\ events = <<>>
  /\ kvWrites = 0
  /\ caches = [c \in Kinds |-> [k \in CacheKeys |-> None]]
  /\ life = [phase |-> "new", task |-> "none", db |-> "new",
             resolver |-> FALSE, meta |-> None]
  /\ req = ReqIdle
  /\ calls = 0

(***************************************************************************)
(* LandtableState: one action per suspension point.                        *)
(***************************************************************************)
\* connect(): the client connects, the backends are initialised, and the
\* watcher task is created; it subscribes to the prefix /landtable.
Connect ==
  /\ life.phase = "new"
  /\ life' = [life EXCEPT !.phase = "connected", !.db = "open",
                          !.resolver = TRUE, !.task = "running"]
  /\ UNCHANGED <<now, kv, events, kvWrites, caches, req, calls>>
  /\ UNCHANGED <<backendVars, pureVars>>

\* Time passes; the clock is followed until shutdown().
Tick ==
  /\ life.phase # "shutdown"
  /\ now + TickStep <= MaxTime
  /\ now' = now + TickStep
  /\ UNCHANGED <<kv, events, kvWrites, caches, life, req, calls>>
  /\ UNCHANGED <<backendVars, pureVars>>

\* A configuration push writes a key while the process is connected; the
\* watch stream carries the event to the watcher task while it is
\* subscribed.
KvPut(key, value) ==
  /\ life.phase = "connected"
  /\ kvWrites < MaxKvWrites
  /\ kvWrites' = kvWrites + 1
  /\ kv' = [kv EXCEPT ![key] = Some(value)]
  /\ events' = IF life.task = "running"
               THEN Append(events, [key |-> key, value |-> Some(value)])
               ELSE events
  /\ UNCHANGED <<now, caches, life, req, calls>>
  /\ UNCHANGED <<backendVars, pureVars>>

\* A configuration push deletes a key; the event carries no value.
KvDelete(key) ==
  /\ life.phase = "connected"
  /\ kvWrites < MaxKvWrites
  /\ kv[key] # None
  /\ kvWrites' = kvWrites + 1
  /\ kv' = [kv EXCEPT ![key] = None]
  /\ events' = IF life.task = "running"
               THEN Append(events, [key |-> key, value |-> None])
               ELSE events
  /\ UNCHANGED <<now, caches, life, req, calls>>
  /\ UNCHANGED <<backendVars, pureVars>>

\* task(): the watcher takes the next event.  An event whose value is not
\* a JSON document (a deletion's empty value) raises out of the task.
WatcherStep ==
  /\ life.task = "running"
  /\ events # <<>>
  /\ LET event == Head(events)
         slot == WatchSlot(event.key)
         entry == CachedEntry(now, The(event.value))
     IN /\ events' = Tail(events)
        /\ IF slot.cache = "unknown"
           THEN UNCHANGED <<caches, life>>
           ELSE IF event.value = None
           THEN /\ life' = [life EXCEPT !.task = "failed"]
                /\ UNCHANGED caches
           ELSE IF slot.cache = "meta"
           THEN /\ life' = [life EXCEPT !.meta = Some(entry)]
                /\ UNCHANGED caches
           ELSE /\ caches' = [caches EXCEPT ![slot.cache][slot.key] = Some(entry)]
                /\ UNCHANGED life
  /\ UNCHANGED <<now, kv, kvWrites, req, calls>>
  /\ UNCHANGED <<backendVars, pureVars>>

\* fetch_workspace / fetch_table / fetch_database is called: a fresh entry
\* under str(handle) is returned at once; otherwise the first read of the
\* store is awaited.
ReqStart(call) ==
  /\ life.phase = "connected"
  /\ req.pc = "idle"
  /\ calls < MaxCalls
  /\ calls' = calls + 1
  /\ LET entry == Lookup(call.kind, call.handle.s)
         start == [ReqIdle EXCEPT !.call = Some(call), !.found = entry, !.t0 = now]
     IN req' = IF entry # None /\ Fresh(The(entry), now)
               THEN [start EXCEPT !.pc = "done", !.path = "hit",
                                  !.out = Some(Ok(The(entry).inner))]
               ELSE [start EXCEPT !.path = "miss", !.id = call.handle.s,
                                  !.pc = IF NeedsAlias(call) THEN "alias"
                                         ELSE "get"]
  /\ UNCHANGED <<now, kv, events, kvWrites, caches, life>>
  /\ UNCHANGED <<backendVars, pureVars>>

\* The alias is read: no alias raises NOT_FOUND, otherwise its value is the
\* id and the read of the object is awaited.
ReqAlias ==
  /\ req.pc = "alias"
  /\ LET alias == KvGet(AliasKeyOf(The(req.call)))
     IN req' = IF alias = None
               THEN [req EXCEPT !.pc = "done", !.reads = @ + 1,
                                !.out = Some(NotFound)]
               ELSE [req EXCEPT !.pc = "get", !.reads = @ + 1,
                                !.id = The(alias)]
  /\ UNCHANGED <<now, kv, events, kvWrites, caches, life, calls>>
  /\ UNCHANGED <<backendVars, pureVars>>

\* The store reads the object's key; the answer is on its way to the task.
ReqGet ==
  /\ req.pc = "get"
  /\ req' = [req EXCEPT !.pc = "resume", !.reads = @ + 1,
                        !.resp = KvGet(MainKeyOf(The(req.call), req.id))]
  /\ UNCHANGED <<now, kv, events, kvWrites, caches, life, calls>>
  /\ UNCHANGED <<backendVars, pureVars>>

\* The task resumes with the answer: None raises NOT_FOUND; otherwise the
\* model is built, one CachedEntry(created_at = now) is stored under the
\* insert keys, and the model is returned.
ReqResume ==
  /\ req.pc = "resume"
  /\ IF req.resp = None
     THEN /\ req' = [req EXCEPT !.pc = "done", !.out = Some(NotFound)]
          /\ UNCHANGED caches
     ELSE LET resolved == The(req.resp)
              entry == CachedEntry(InsertStamp(req.t0, now), resolved)
              keys == InsertKeys(The(req.call), resolved)
              kind == The(req.call).kind
          IN /\ caches' = [caches EXCEPT ![kind] =
                             [k \in CacheKeys |->
                                IF k \in keys THEN Some(entry) ELSE @[k]]]
             /\ req' = [req EXCEPT !.pc = "done", !.t1 = now,
                                   !.out = Some(Ok(resolved))]
  /\ UNCHANGED <<now, kv, events, kvWrites, life, calls>>
  /\ UNCHANGED <<backendVars, pureVars>>

\* The caller has the result; the task is free for the next request.
ReqFinish ==
  /\ req.pc = "done"
  /\ req' = ReqIdle
  /\ UNCHANGED <<now, kv, events, kvWrites, caches, life, calls>>
  /\ UNCHANGED <<backendVars, pureVars>>

\* shutdown(): task_obj.cancel() asks for the watcher's cancellation, and
\* db.close() is awaited.  The task is not awaited.
Shutdown ==
  /\ life.phase = "connected"
  /\ req.pc = "idle"
  /\ life' = [life EXCEPT !.phase = "shutdown", !.db = "closing",
                          !.task = IF @ = "running" THEN "cancelling" ELSE @]
  /\ UNCHANGED <<now, kv, events, kvWrites, caches, req, calls>>
  /\ UNCHANGED <<backendVars, pureVars>>

\* The event loop runs the watcher task, which ends with CancelledError.
WatcherCancelled ==
  /\ life.task = "cancelling"
  /\ life' = [life EXCEPT !.task = "cancelled"]
  /\ UNCHANGED <<now, kv, events, kvWrites, caches, req, calls>>
  /\ UNCHANGED <<backendVars, pureVars>>

\* db.close() completes: the client is closed and shutdown() returns.
DbClosed ==
  /\ life.db = "closing"
  /\ life' = [life EXCEPT !.db = "closed"]
  /\ UNCHANGED <<now, kv, events, kvWrites, caches, req, calls>>
  /\ UNCHANGED <<backendVars, pureVars>>

StateNext ==
  \/ Connect
  \/ Tick
  \/ \E k \in DOMAIN Writable : \E v \in Writable[k] : KvPut(k, v)
  \/ \E k \in DOMAIN Writable : KvDelete(k)
  \/ WatcherStep
  \/ \E call \in Calls : ReqStart(call)
  \/ ReqAlias
  \/ ReqGet
  \/ ReqResume
  \/ ReqFinish
  \/ Shutdown
  \/ WatcherCancelled
  \/ DbClosed

(***************************************************************************)
(* PostgresBackend.fetch_connection_pool, called by concurrent tasks.      *)
(***************************************************************************)
\* fetch_connection_pool(url) is called: a pool found in self.pools is
\* returned at once; otherwise asyncpg.create_pool(url) is awaited.
FcpCall(c, url) ==
  /\ fcp.task[c].pc = "idle"
  /\ fcp.n < MaxPoolCalls
  /\ fcp' = [fcp EXCEPT
               !.n = @ + 1,
               !.task[c] = [FcpIdle EXCEPT
                              !.url = Some(url),
                              !.after = fcp.first[url],
                              !.got = pools[url],
                              !.pc = IF pools[url] # None THEN "returned"
                                     ELSE "create_pool"]]
  /\ UNCHANGED <<pools, poolsMade, checkedOut, conns, dbRows, tx, txnsRun>>
  /\ UNCHANGED <<stateVars, pureVars>>

\* create_pool returns to caller c: the new pool is stored in self.pools
\* under the url, whatever is there, and returned.
FcpCreated(c) ==
  /\ fcp.task[c].pc = "create_pool"
  /\ LET url == The(fcp.task[c].url)
         new_pool == poolsMade + 1
     IN /\ poolsMade' = new_pool
        /\ pools' = [pools EXCEPT ![url] = Some(new_pool)]
        /\ fcp' = [fcp EXCEPT
                     !.task[c].pc = "returned",
                     !.task[c].got = Some(new_pool),
                     !.task[c].built = TRUE,
                     !.made[url] = @ \cup {new_pool},
                     !.first[url] = IF @ = None THEN Some(new_pool) ELSE @]
  /\ UNCHANGED <<checkedOut, conns, dbRows, tx, txnsRun>>
  /\ UNCHANGED <<stateVars, pureVars>>

\* The caller goes on with the pool it got.
FcpFinish(c) ==
  /\ fcp.task[c].pc = "returned"
  /\ fcp' = [fcp EXCEPT !.task[c] = FcpIdle]
  /\ UNCHANGED <<pools, poolsMade, checkedOut, conns, dbRows, tx, txnsRun>>
  /\ UNCHANGED <<stateVars, pureVars>>

PoolNext ==
  \/ \E c \in Callers, url \in Urls : FcpCall(c, url)
  \/ \E c \in Callers : FcpCreated(c)
  \/ \E c \in Callers : FcpFinish(c)

(***************************************************************************)
(* Python objects whose class matters to ==, in, and isinstance.           *)
(***************************************************************************)
PyStr(s) == [py |-> "str", v |-> s]
Identifier(namespace, hex) == [py |-> "Identifier", v |-> <<namespace, hex>>]
\* Identifier.__repr__, which str() uses.
Identifier_repr(id) == IdStr(id.v[1], id.v[2])
\* Identifier.__eq__(self, value): value is an Identifier of the same uuid
\* and namespace.
Identifier_eq(self, value) == value.py = "Identifier" /\ value.v = self.v
\* str.__eq__(self, value)
Str_eq(self, value) == value.py = "str" /\ value.v = self.v
\* x in fields, for a set: some member is equal to x.
PyIn(x, container) ==
  \E y \in container :
    IF x.py = "Identifier" THEN Identifier_eq(x, y) ELSE Str_eq(x, y)

(***************************************************************************)
(* LandtableTable.resolve_columns (models.py).                             *)
(***************************************************************************)
\* A LandtableField of the table, with its column in the replica, and the
\* fields a table may expose.
LandtableField(name, hex, type, column) ==
  [name |-> PyStr(name), id |-> Identifier("lfd", hex), type |-> type,
   column_name |-> column]
AllFields ==
  {LandtableField("name", "F1", "short_text", "col_name"),
   LandtableField("age", "F2", "number", "col_age")}
\* What a request may put in `fields`: null, or a set of str.
FieldStrings ==
  {PyStr("name"), PyStr("age"), PyStr(IdStr("lfd", "F1")),
   PyStr(IdStr("lfd", "F2")), PyStr("salary")}
FieldsArgs == {None} \cup {Some(S) : S \in SUBSET FieldStrings}

\* resolve_columns(fields): exposed_fields when fields is None, else the
\* exposed fields with `field.name in fields or field.id in fields`.
resolve_columns(exposed_fields, fields) ==
  IF fields = None THEN exposed_fields
  ELSE {field \in exposed_fields :
          PyIn(field.name, The(fields)) \/ PyIn(field.id, The(fields))}

RcIdle == [pc |-> "idle", exposed_fields |-> {}, fields |-> None, out |-> {}]

\* table.resolve_columns(fields) is called on a table.
RcCall(exposed_fields, fields) ==
  /\ rc.pc = "idle"
  /\ rc' = [RcIdle EXCEPT !.pc = "called", !.exposed_fields = exposed_fields,
                          !.fields = fields]
  /\ UNCHANGED <<backendVars, stateVars, idp, trc, fm>>

\* It returns the list of fields.
RcReturn ==
  /\ rc.pc = "called"
  /\ rc' = [rc EXCEPT !.pc = "returned",
                      !.out = resolve_columns(rc.exposed_fields, rc.fields)]
  /\ UNCHANGED <<backendVars, stateVars, idp, trc, fm>>

RcDone ==
  /\ rc.pc = "returned"
  /\ rc' = RcIdle
  /\ UNCHANGED <<backendVars, stateVars, idp, trc, fm>>

ResolveNext ==
  \/ \E e \in SUBSET AllFields, f \in FieldsArgs : RcCall(e, f)
  \/ RcReturn
  \/ RcDone

(***************************************************************************)
(* Identifier.parse_from, parse_from_ns and the namespace validators       *)
(* (identifiers.py).                                                       *)
(***************************************************************************)
IdentifierNamespace == {"ltb", "lfd", "lwk", "lrw", "ldb"}

\* s[i] of a Python str, counted from 1; the caller checks i <= len(s).
CharAt(s, i) == SubSeq(s, i, i)
\* s[:n] and s[n:] of a Python str.
Take(s, n) == SubSeq(s, 1, IF Len(s) < n THEN Len(s) ELSE n)
Drop(s, n) == IF Len(s) <= n THEN "" ELSE SubSeq(s, n + 1, Len(s))

HexLower == {"0", "1", "2", "3", "4", "5", "6", "7", "8", "9",
             "a", "b", "c", "d", "e", "f"}
HexUpper == {"A", "B", "C", "D", "E", "F"}
ToLower(c) ==
  CASE c = "A" -> "a" [] c = "B" -> "b" [] c = "C" -> "c"
    [] c = "D" -> "d" [] c = "E" -> "e" [] c = "F" -> "f" [] OTHER -> c

\* s without the characters of `drop`.
RECURSIVE Without(_, _)
Without(s, drop) ==
  IF s = "" THEN ""
  ELSE (IF CharAt(s, 1) \in drop THEN "" ELSE CharAt(s, 1))
       \o Without(Drop(s, 1), drop)
RECURSIVE Lowered(_)
Lowered(s) ==
  IF s = "" THEN "" ELSE ToLower(CharAt(s, 1)) \o Lowered(Drop(s, 1))
IsHex(s) == \A i \in 1..Len(s) : CharAt(s, i) \in HexLower \cup HexUpper
RECURSIVE Zeros(_)
Zeros(n) == IF n = 0 THEN "" ELSE "0" \o Zeros(n - 1)

\* uuid.UUID(hex=h): braces (at the ends; one inside is no hex digit and
\* fails either way) and hyphens are removed, what is left must be
\* 32 characters that int(_, 16) accepts (hex digits of either case, after
\* an optional sign), else ValueError.  The UUID is kept as its .hex, the
\* number in 32 lower-case hex digits.  (The strings of ParseInputs hold no
\* underscore, blank, "0x", "urn:" or "uuid:".)
UUID(h) ==
  LET hex == Without(h, {"{", "}", "-"})
      digits == IF hex # "" /\ CharAt(hex, 1) = "+" THEN Drop(hex, 1) ELSE hex
  IN IF Len(hex) # 32 \/ digits = "" \/ ~IsHex(digits)
     THEN Raise(PyException("ValueError"))
     ELSE Return(Zeros(32 - Len(digits)) \o Lowered(digits), {})

\* The mutant of parse_from that does not test the length.
parse_from_NoLengthTest(to_parse) ==
  IF Len(to_parse) < 4 THEN Raise(PyException("IndexError"))
  ELSE IF CharAt(to_parse, 4) # ":" THEN Raise(PyException("ValueError"))
  ELSE Return(Identifier(Take(to_parse, 3), Lowered(Take(Drop(to_parse, 4), 32))),
              {})

\* Identifier.parse_from(to_parse): to_parse[3] is read first (IndexError
\* on a string of fewer than 4 characters), then the length is tested, then
\* the UUID is built from to_parse[4:].
parse_from(to_parse) ==
  IF Len(to_parse) < 4 THEN Raise(PyException("IndexError"))
  ELSE IF CharAt(to_parse, 4) # ":" THEN Raise(PyException("ValueError"))
  ELSE IF Len(to_parse) # 36 THEN Raise(PyException("ValueError"))
  ELSE LET uuid == UUID(Drop(to_parse, 4))
       IN IF uuid.kind = "raise" THEN uuid
          ELSE Return(Identifier(Take(to_parse, 3), uuid.value), {})

\* identifier_validator_factory(namespace)(identifier)
validator(namespace, identifier) ==
  IF identifier.v[1] # namespace THEN Raise(PyException("ValueError"))
  ELSE Return(identifier, {})

\* Identifier.parse_from_ns(namespace, to_parse)
parse_from_ns(namespace, to_parse) ==
  LET identifier == parse_from(to_parse)
  IN IF identifier.kind = "raise" THEN identifier
     ELSE validator(namespace, identifier.value)

\* The uuids of the identifiers that are formatted and parsed back.
Uuids == {"00000000000000000000000000000001",
          "123e4567e89b12d3a456426614174000",
          "ffffffffffffffffffffffffffffffff"}
\* The strings handed to the parsers: a prefix, a separator and a tail.
ParsePrefixes == {"lwk", "ltb", "rec", "lw", "lwkk", ""}
ParseSeps == {":", "-", ""}
ParseTails ==
  Uuids \cup
  {"123E4567E89B12D3A456426614174000",       \* upper case
   "123e4567e89b12d3a45642661417400",        \* 31 digits
   "123e4567e89b12d3a4564266141740000",      \* 33 digits
   "123e4567-e89b-12d3-a456-426614174000",   \* hyphenated, 36 characters
   "123e4567-e89b-12d3-a456-4266141",        \* 32 characters, 28 digits
   "g23e4567e89b12d3a456426614174000",       \* not hex
   "+23e4567e89b12d3a456426614174000",       \* signed
   "", "1"}
ParseInputs ==
  {p \o sep \o t : p \in ParsePrefixes, sep \in ParseSeps, t \in ParseTails}

IdpIdle == [pc |-> "idle", fn |-> "", id |-> None, namespace |-> None,
            to_parse |-> "", out |-> None]

\* repr(id) of an Identifier is taken and handed to parse_from.
IdFormatParse(namespace, uuid) ==
  /\ idp.pc = "idle"
  /\ LET id == Identifier(namespace, uuid)
     IN idp' = [IdpIdle EXCEPT !.pc = "returned", !.fn = "parse_from",
                               !.id = Some(id),
                               !.to_parse = Identifier_repr(id),
                               !.out = Some(parse_from(Identifier_repr(id)))]
  /\ UNCHANGED <<backendVars, stateVars, rc, trc, fm>>

\* Identifier.parse_from(to_parse) is called on a string.
IdParse(to_parse) ==
  /\ idp.pc = "idle"
  /\ idp' = [IdpIdle EXCEPT !.pc = "returned", !.fn = "parse_from",
                            !.to_parse = to_parse,
                            !.out = Some(parse_from(to_parse))]
  /\ UNCHANGED <<backendVars, stateVars, rc, trc, fm>>

\* Identifier.parse_from_ns(namespace, to_parse) is called on a string.
IdParseNs(namespace, to_parse) ==
  /\ idp.pc = "idle"
  /\ idp' = [IdpIdle EXCEPT !.pc = "returned", !.fn = "parse_from_ns",
                            !.namespace = Some(namespace),
                            !.to_parse = to_parse,
                            !.out = Some(parse_from_ns(namespace, to_parse))]
  /\ UNCHANGED <<backendVars, stateVars, rc, trc, fm>>

\* A typed alias (TableIdentifier, ...) validates a str: Identifier.validate
\* parses it and the AfterValidator of the namespace is applied.
IdValidate(namespace, to_parse) ==
  /\ idp.pc = "idle"
  /\ LET identifier == parse_from(to_parse)
     IN idp' = [IdpIdle EXCEPT
                  !.pc = "returned", !.fn = "validator",
                  !.namespace = Some(namespace), !.to_parse = to_parse,
                  !.out = Some(IF identifier.kind = "raise" THEN identifier
                               ELSE validator(namespace, identifier.value))]
  /\ UNCHANGED <<backendVars, stateVars, rc, trc, fm>>

IdDone ==
  /\ idp.pc = "returned"
  /\ idp' = IdpIdle
  /\ UNCHANGED <<backendVars, stateVars, rc, trc, fm>>

IdentifierNext ==
  \/ \E namespace \in IdentifierNamespace, uuid \in Uuids :
       IdFormatParse(namespace, uuid)
  \/ \E to_parse \in ParseInputs : IdParse(to_parse)
  \/ \E namespace \in {"lwk", "ltb"}, to_parse \in ParseInputs :
       IdParseNs(namespace, to_parse)
  \/ \E namespace \in {"lwk", "ltb"}, to_parse \in ParseInputs :
       IdValidate(namespace, to_parse)
  \/ IdDone

(***************************************************************************)
(* The formula language: lex (formula/lexer.py).                           *)
(***************************************************************************)
\* A value a function returned.
Ret(value) == [kind |-> "return", value |-> value]

Digits == {"0", "1", "2", "3", "4", "5", "6", "7", "8", "9"}
Letters ==
  {"a", "b", "c", "d", "e", "f", "g", "h", "i", "j", "k", "l", "m",
   "n", "o", "p", "q", "r", "s", "t", "u", "v", "w", "x", "y", "z",
   "A", "B", "C", "D", "E", "F", "G", "H", "I", "J", "K", "L", "M",
   "N", "O", "P", "Q", "R", "S", "T", "U", "V", "W", "X", "Y", "Z",
   "_"}
\* \w of the token patterns, and the characters SKIP matches.
WordChars == Letters \cup Digits
Blanks == {" ", "\t", "\n"}

Token(kind, value) == [kind |-> kind, value |-> value]

\* The last index of the longest run of characters of `class` that starts
\* at pos; pos - 1 when there is none.
RECURSIVE RunEnd(_, _, _)
RunEnd(code, pos, class) ==
  IF pos <= Len(code) /\ CharAt(code, pos) \in class
  THEN RunEnd(code, pos + 1, class)
  ELSE pos - 1
\* (?!\w) after index end.
NoWordAfter(code, end) ==
  end = Len(code) \/ CharAt(code, end + 1) \notin WordChars

\* The index of the quote that closes the string literal whose body starts
\* at pos, for the pattern "(?:\\.|[^"\\])*"; 0 when there is none.
RECURSIVE StringEnd(_, _)
StringEnd(code, pos) ==
  IF pos > Len(code) THEN 0
  ELSE IF CharAt(code, pos) = "\"" THEN pos
  ELSE IF CharAt(code, pos) = "\\"
  THEN IF pos + 1 <= Len(code) /\ CharAt(code, pos + 1) # "\n"
       THEN StringEnd(code, pos + 2) ELSE 0
  ELSE StringEnd(code, pos + 1)

\* The kinds of the one- and two-character tokens, in the order of
\* token_specification.
Punctuation ==
  <<Token("LPAREN", "("), Token("RPAREN", ")"), Token("LBRACE", "{"),
    Token("RBRACE", "}"), Token("LBRACK", "["), Token("RBRACK", "]"),
    Token("MUL", "*"), Token("DIV", "/"), Token("PLUS", "+"),
    Token("MINUS", "-"), Token("COMMA", ","), Token("DOT", "."),
    Token("LE", "<="), Token("GE", ">="), Token("EQ", "="),
    Token("NE", "!="), Token("LT", "<"), Token("GT", ">"),
    Token("AMPERSAND", "&")>>
StartsWith(code, pos, text) ==
  /\ pos + Len(text) - 1 <= Len(code)
  /\ SubSeq(code, pos, pos + Len(text) - 1) = text

\* The first pattern of token_specification that matches at pos, with the
\* index where the match ends; None when no pattern matches.
MatchToken(code, pos) ==
  LET c == CharAt(code, pos)
      int == RunEnd(code, pos, Digits)
      frac == IF int >= pos /\ int + 2 <= Len(code) /\ CharAt(code, int + 1) = "."
              THEN RunEnd(code, int + 2, Digits) ELSE 0
      punct == {i \in 1..Len(Punctuation) :
                  StartsWith(code, pos, Punctuation[i].value)}
      first == CHOOSE i \in punct : \A j \in punct : i <= j
      quote == IF c = "\"" THEN StringEnd(code, pos + 1) ELSE 0
  IN IF c \in Blanks
     THEN Some([kind |-> "SKIP", end |-> RunEnd(code, pos, Blanks)])
     ELSE IF frac >= int + 2 /\ NoWordAfter(code, frac)
     THEN Some([kind |-> "NUMBER", end |-> frac])
     ELSE IF int >= pos /\ NoWordAfter(code, int)
     THEN Some([kind |-> "NUMBER", end |-> int])
     ELSE IF punct # {}
     THEN Some([kind |-> Punctuation[first].kind,
                end |-> pos + Len(Punctuation[first].value) - 1])
     ELSE IF c \in Letters
     THEN Some([kind |-> "ID", end |-> RunEnd(code, pos, WordChars)])
     ELSE IF quote # 0 THEN Some([kind |-> "STRING", end |-> quote])
     ELSE IF c # "\n" THEN Some([kind |-> "MISMATCH", end |-> pos])
     ELSE None

\* The inner loop of lex after "{": the name up to the next "}", a backslash
\* taking the character after it; code[pos] past the end is an IndexError.
RECURSIVE ScanVariable(_, _, _)
ScanVariable(code, pos, inner) ==
  IF pos > Len(code) THEN Raise(PyException("IndexError"))
  ELSE IF CharAt(code, pos) = "}" THEN Ret([inner |-> inner, pos |-> pos])
  ELSE IF CharAt(code, pos) = "\\"
  THEN IF pos + 1 > Len(code) THEN Raise(PyException("IndexError"))
       ELSE ScanVariable(code, pos + 2, inner \o CharAt(code, pos + 1))
  ELSE ScanVariable(code, pos + 1, inner \o CharAt(code, pos))

\* lex(code), from position pos (counted from 1) with `tokens` collected.
RECURSIVE LexFrom(_, _, _)
LexFrom(code, pos, tokens) ==
  IF pos > Len(code) THEN Ret(tokens)
  ELSE IF CharAt(code, pos) = "{"
  THEN LET name == ScanVariable(code, pos + 1, "")
       IN IF name.kind = "raise" THEN name
          ELSE LexFrom(code, name.value.pos + 1,
                       Append(tokens, Token("VARIABLE_NAME", name.value.inner)))
  ELSE LET match == MatchToken(code, pos)
       IN IF match = None THEN Raise(PyException("Exception"))
          ELSE LexFrom(code, The(match).end + 1,
                       IF The(match).kind = "SKIP" THEN tokens
                       ELSE Append(tokens,
                                   Token(The(match).kind,
                                         SubSeq(code, pos, The(match).end))))
lex(code) == LexFrom(code, 1, <<>>)

(***************************************************************************)
(* The formula language: the AST and Parser (formula/parse.py), Formula    *)
(* (formula/formula.py).                                                   *)
(***************************************************************************)
\* FormulaTypeException(message=...) and FormulaParseException(message=...)
FormulaTypeException ==
  [class |-> "FormulaTypeException", type |-> "BAD_REQUEST", code |-> 400]
FormulaParseException ==
  [class |-> "FormulaParseException", type |-> "BAD_REQUEST", code |-> 400]

\* The nodes of the AST.  A Number holds the text of its token, which
\* float() turns into the value.
Number(value) == [node |-> "Number", value |-> value]
String(value) == [node |-> "String", value |-> value]
Variable(name) == [node |-> "Variable", name |-> name]
FunctionCall(name, args) == [node |-> "FunctionCall", name |-> name, args |-> args]
Array(elements) == [node |-> "Array", elements |-> elements]
BinOp(left, op, right) == [node |-> "BinOp", left |-> left, op |-> op, right |-> right]
UnOp(op, right) == [node |-> "UnOp", op |-> op, right |-> right]
Cast(inner, type) == [node |-> "Cast", inner |-> inner, type |-> type]

\* Parser.current_token and Parser.peek; pos counts the tokens from 1.
current_token(tokens, pos) ==
  IF pos <= Len(tokens) THEN tokens[pos] ELSE Token("EOF", "")
peek(tokens, pos) ==
  IF pos + 1 <= Len(tokens) THEN tokens[pos + 1].kind ELSE "EOF"

get_precedence(token_type) ==
  CASE token_type \in {"PLUS", "AMPERSAND", "MINUS"} -> 10
    [] token_type \in {"MUL", "DIV"} -> 20
    [] token_type \in {"EQ", "NE", "LT", "GT", "LE", "GE"} -> 7
    [] OTHER -> 0

\* Parser.eat(token_type) at pos: the next position, or Exception.
eat(tokens, pos, token_type) ==
  IF current_token(tokens, pos).kind = token_type THEN Ret(pos + 1)
  ELSE Raise(PyException("Exception"))

RECURSIVE expression(_, _, _)
RECURSIVE ExpressionLoop(_, _, _, _)
RECURSIVE ElementsLoop(_, _, _, _)
RECURSIVE primary(_, _)

\* Parser.expression(precedence): the node and the position after it.
expression(tokens, pos, precedence) ==
  LET left == primary(tokens, pos)
  IN IF left.kind = "raise" THEN left
     ELSE ExpressionLoop(tokens, left.value.pos, precedence, left.value.node)

\* The `while True` loop of expression, with `left` built so far.
ExpressionLoop(tokens, pos, precedence, left) ==
  LET token == current_token(tokens, pos)
      token_precedence == get_precedence(token.kind)
  IN IF token_precedence <= precedence
     THEN Ret([node |-> left, pos |-> pos])
     ELSE LET right == expression(tokens, pos + 1, token_precedence)
          IN IF right.kind = "raise" THEN right
             ELSE ExpressionLoop(tokens, right.value.pos, precedence,
                                 BinOp(left, token.kind, right.value.node))

\* The loops that collect the arguments of a call (closer RPAREN) and the
\* elements of an array (closer RBRACK): an expression, then a comma if
\* there is one, until the closer, which is eaten.
ElementsLoop(tokens, pos, acc, closer) ==
  IF current_token(tokens, pos).kind = closer
  THEN Ret([elements |-> acc, pos |-> pos + 1])
  ELSE LET e == expression(tokens, pos, 0)
       IN IF e.kind = "raise" THEN e
          ELSE ElementsLoop(
                 tokens,
                 IF current_token(tokens, e.value.pos).kind = "COMMA"
                 THEN e.value.pos + 1 ELSE e.value.pos,
                 Append(acc, e.value.node), closer)

\* Parser.primary()
primary(tokens, pos) ==
  LET token == current_token(tokens, pos)
  IN CASE token.kind = "NUMBER" ->
            Ret([node |-> Number(token.value), pos |-> pos + 1])
       [] token.kind = "ID" /\ peek(tokens, pos) = "LPAREN" ->
            LET args == ElementsLoop(tokens, pos + 2, <<>>, "RPAREN")
            IN IF args.kind = "raise" THEN args
               ELSE Ret([node |-> FunctionCall(token.value, args.value.elements),
                         pos |-> args.value.pos])
       [] token.kind = "ID" /\ peek(tokens, pos) # "LPAREN" ->
            Ret([node |-> Variable(token.value), pos |-> pos + 1])
       [] token.kind = "STRING" ->
            Ret([node |-> String(IF Len(token.value) <= 2 THEN ""
                                 ELSE SubSeq(token.value, 2, Len(token.value) - 1)),
                 pos |-> pos + 1])
       [] token.kind = "LPAREN" ->
            LET inner == expression(tokens, pos + 1, 0)
            IN IF inner.kind = "raise" THEN inner
               ELSE LET after == eat(tokens, inner.value.pos, "RPAREN")
                    IN IF after.kind = "raise" THEN after
                       ELSE Ret([node |-> inner.value.node, pos |-> after.value])
       [] token.kind = "MINUS" ->
            LET right == primary(tokens, pos + 1)
            IN IF right.kind = "raise" THEN right
               ELSE Ret([node |-> UnOp("MINUS", right.value.node),
                         pos |-> right.value.pos])
       [] token.kind = "LBRACK" ->
            LET e == ElementsLoop(tokens, pos + 1, <<>>, "RBRACK")
            IN IF e.kind = "raise" THEN e
               ELSE Ret([node |-> Array(e.value.elements), pos |-> e.value.pos])
       [] token.kind = "VARIABLE_NAME" ->
            Ret([node |-> Variable(token.value), pos |-> pos + 1])
       [] OTHER -> Raise(PyException("Exception"))

\* Parser.parse(tokens): None for no tokens, else the expression, which
\* must end at EOF.
ParserParse(tokens) ==
  IF tokens = <<>> THEN Ret(None)
  ELSE LET ret == expression(tokens, 1, 0)
       IN IF ret.kind = "raise" THEN ret
          ELSE IF current_token(tokens, ret.value.pos).kind # "EOF"
          THEN Raise(PyException("Exception"))
          ELSE Ret(Some(ret.value.node))

\* Formula(code): lex, parse, and "empty formula" when there is no AST; the
\* value is formula.ast.
Formula(code) ==
  LET tokens == lex(code)
  IN IF tokens.kind = "raise" THEN tokens
     ELSE LET ast == ParserParse(tokens.value)
          IN IF ast.kind = "raise" THEN ast
             ELSE IF ast.value = None THEN Raise(FormulaParseException)
             ELSE Ret(The(ast.value))

(***************************************************************************)
(* The formula language: types and resolve_type (formula/parse.py), the    *)
(* function validators (formula/sql/functions.py).                         *)
(***************************************************************************)
\* pydantic's ValidationError: what FormulaTypeException("...") raises, the
\* message being taken for the first field, code: int.
ValidationError == PyException("ValidationError")

ASTConcreteType(v) == [t |-> "concrete", v |-> v]
ASTListType(inner) == [t |-> "list", inner |-> inner]
\* ASTConcreteType.NUMBER, .STRING, .DATETIME and .BOOLEAN
TNumber == ASTConcreteType("NUMBER")
TString == ASTConcreteType("STRING")
TDatetime == ASTConcreteType("DATETIME")
TBoolean == ASTConcreteType("BOOLEAN")

\* ASTTypeUnion(*members): the set of the members; a list type among them
\* cannot be hashed into the set (TypeError).
ASTTypeUnion(members) ==
  IF \E i \in 1..Len(members) : members[i].t = "list"
  THEN Raise(PyException("TypeError"))
  ELSE Ret([t |-> "union",
            members |-> UNION {IF members[i].t = "union" THEN members[i].members
                               ELSE {members[i]} : i \in 1..Len(members)}])

\* self.is_subset(rhs); ASTListType does not define it (NotImplementedError).
is_subset(self, rhs) ==
  CASE self.t = "concrete" ->
         Ret(IF rhs.t = "union" THEN self \in rhs.members
             ELSE rhs.t = "concrete" /\ self.v = rhs.v)
    [] self.t = "union" ->
         Ret(IF rhs.t = "union" THEN self.members \subseteq rhs.members
             ELSE Cardinality(self.members) = 1 /\ rhs.t = "concrete"
                  /\ self.members = {rhs})
    [] OTHER -> Raise(PyException("NotImplementedError"))

\* The keys of SQL_FUNCTIONS, with the expected_types each validator hands
\* to the cast helper and the type it returns.
SQL_FUNCTIONS ==
  [CREATED_TIME |-> [expected_types |-> <<>>, returns |-> TDatetime],
   DATETIME_DIFF |-> [expected_types |-> <<TDatetime, TDatetime, TString>>,
                      returns |-> TNumber],
   NOW |-> [expected_types |-> <<>>, returns |-> TDatetime]]

\* The first i in 1..n for which raised(i) holds, 0 when there is none.
FirstRaise(results) ==
  LET bad == {i \in 1..Len(results) : results[i].kind = "raise"}
  IN IF bad = {} THEN 0 ELSE CHOOSE i \in bad : \A j \in bad : i <= j

\* cast(self, args, expected_types) of functions.py: the count is compared,
\* then each arg.is_subset(expected) is evaluated; new_nodes is dropped, so
\* the call's args stay as they are.
cast(args, expected_types) ==
  IF Len(args) # Len(expected_types) THEN Raise(ValidationError)
  ELSE LET subs == [i \in 1..Len(args) |-> is_subset(args[i], expected_types[i])]
       IN IF FirstRaise(subs) # 0 THEN subs[FirstRaise(subs)] ELSE Ret(None)

\* node.resolve_type(env): the type, and the node as resolve_type leaves it
\* (operands wrapped in Cast).
RECURSIVE resolve_type(_, _)
resolve_type(node, env) ==
  CASE node.node = "Cast" -> Ret([typ |-> node.type, node |-> node])
    [] node.node = "Number" -> Ret([typ |-> TNumber, node |-> node])
    [] node.node = "String" -> Ret([typ |-> TString, node |-> node])
    [] node.node = "Variable" ->
         IF node.name \in DOMAIN env.variables
         THEN Ret([typ |-> env.variables[node.name], node |-> node])
         ELSE Raise(FormulaTypeException)
    [] node.node = "UnOp" ->
         LET right == resolve_type(node.right, env)
         IN IF right.kind = "raise" THEN right
            ELSE LET sub == is_subset(right.value.typ, TNumber)
                 IN IF sub.kind = "raise" THEN sub
                    ELSE Ret([typ |-> TNumber,
                              node |-> UnOp(node.op,
                                            IF sub.value THEN right.value.node
                                            ELSE Cast(right.value.node, TNumber))])
    [] node.node = "BinOp" ->
         LET first == IF node.op = "EQ" THEN resolve_type(node.right, env)
                      ELSE Ret([typ |-> IF node.op = "AMPERSAND" THEN TString
                                        ELSE TNumber,
                                node |-> node.right])
         IN IF first.kind = "raise" THEN first
            ELSE
              LET resultant_type == first.value.typ
                  left == resolve_type(node.left, env)
              IN IF left.kind = "raise" THEN left
                 ELSE
                   LET lsub == is_subset(left.value.typ, resultant_type)
                   IN IF lsub.kind = "raise" THEN lsub
                      ELSE
                        LET right == resolve_type(first.value.node, env)
                        IN IF right.kind = "raise" THEN right
                           ELSE
                             LET rsub == is_subset(right.value.typ, resultant_type)
                             IN IF rsub.kind = "raise" THEN rsub
                                ELSE Ret(
                                  [typ |-> IF node.op \in {"EQ", "LE", "GE", "NE",
                                                           "LT", "GT"}
                                           THEN TBoolean ELSE resultant_type,
                                   node |-> BinOp(
                                     IF lsub.value THEN left.value.node
                                     ELSE Cast(left.value.node, resultant_type),
                                     node.op,
                                     IF rsub.value THEN right.value.node
                                     ELSE Cast(right.value.node, resultant_type))])
    [] node.node = "FunctionCall" ->
         IF node.name \in DOMAIN env.functions
         THEN LET args == [i \in 1..Len(node.args) |->
                             resolve_type(node.args[i], env)]
              IN IF FirstRaise(args) # 0 THEN args[FirstRaise(args)]
                 ELSE LET checked == cast([i \in 1..Len(args) |-> args[i].value.typ],
                                          env.functions[node.name].expected_types)
                      IN IF checked.kind = "raise" THEN checked
                         ELSE Ret([typ |-> env.functions[node.name].returns,
                                   node |-> FunctionCall(
                                     node.name,
                                     [i \in 1..Len(args) |-> args[i].value.node])])
         ELSE Raise(FormulaTypeException)
    [] node.node = "Array" ->
         LET elements == [i \in 1..Len(node.elements) |->
                            resolve_type(node.elements[i], env)]
         IN IF FirstRaise(elements) # 0 THEN elements[FirstRaise(elements)]
            ELSE LET union == ASTTypeUnion([i \in 1..Len(elements) |->
                                              elements[i].value.typ])
                 IN IF union.kind = "raise" THEN union
                    ELSE Ret([typ |-> ASTListType(union.value),
                              node |-> Array([i \in 1..Len(elements) |->
                                                elements[i].value.node])])

(***************************************************************************)
(* The formula language: to_sql (formula/sql/__init__.py) and the function *)
(* implementations (formula/sql/functions.py).                             *)
(***************************************************************************)
\* str(n) for the lengths of `values` the model reaches.
DigitStr(n) ==
  CASE n = 0 -> "0" [] n = 1 -> "1" [] n = 2 -> "2" [] n = 3 -> "3"
    [] n = 4 -> "4" [] n = 5 -> "5" [] n = 6 -> "6" [] n = 7 -> "7"
    [] n = 8 -> "8" [] OTHER -> "9"

\* The mutant of token_map that keeps <= and >= as they are.
token_map_Unswapped ==
  [MUL |-> "*", DIV |-> "/", PLUS |-> "+", MINUS |-> "-", EQ |-> "=",
   LT |-> "<", GT |-> ">", LE |-> "<=", GE |-> ">="]

token_map ==
  [MUL |-> "*", DIV |-> "/", PLUS |-> "+", MINUS |-> "-", EQ |-> "=",
   LT |-> "<", GT |-> ">", LE |-> ">=", GE |-> "<="]

DatetimeUnits ==
  {"years", "months", "days", "hours", "minutes", "seconds", "milliseconds",
   "quarters", "ms", "s", "m", "h", "w", "M", "Q", "y"}

\* What recurse has produced: the SQL text, the values list, and the names
\* it has written into the text as column names.
Sql(text, values, names) == [text |-> text, values |-> values, names |-> names]

\* recurse(node) of to_sql, with the values list as it stands.
RECURSIVE recurse(_, _, _)
recurse(node, env, values) ==
  CASE node.node = "Cast" ->
         LET inner == recurse(node.inner, env, values)
         IN IF node.type \notin {TString, TNumber, TBoolean, TDatetime}
            THEN Raise(ValidationError)
            ELSE IF inner.kind = "raise" THEN inner
            ELSE Ret(Sql("cast(" \o inner.value.text \o " as "
                           \o (CASE node.type = TString -> "text"
                                 [] node.type = TNumber -> "double precision"
                                 [] node.type = TBoolean -> "boolean"
                                 [] OTHER -> "timestamp") \o ")",
                         inner.value.values, inner.value.names))
    [] node.node = "BinOp" ->
         IF node.op \notin DOMAIN token_map THEN Raise(ValidationError)
         ELSE LET left == recurse(node.left, env, values)
              IN IF left.kind = "raise" THEN left
                 ELSE LET right == recurse(node.right, env, left.value.values)
                      IN IF right.kind = "raise" THEN right
                         ELSE Ret(Sql("(" \o left.value.text \o " "
                                        \o token_map[node.op] \o " "
                                        \o right.value.text \o ")",
                                      right.value.values,
                                      left.value.names \cup right.value.names))
    [] node.node = "UnOp" ->
         LET right == recurse(node.right, env, values)
         IN IF right.kind = "raise" THEN right
            ELSE Ret(Sql("(-" \o right.value.text \o ")", right.value.values,
                         right.value.names))
    [] node.node \in {"Number", "String"} ->
         Ret(Sql("$" \o DigitStr(Len(values) + 1), Append(values, node.value), {}))
    [] node.node = "Variable" -> Ret(Sql(node.name, values, {node.name}))
    [] node.node = "FunctionCall" ->
         CASE node.name = "CREATED_TIME" ->
                Ret(Sql("(" \o env.created_time_field \o ")", values,
                        {env.created_time_field}))
           [] node.name = "NOW" -> Ret(Sql("now()", values, {}))
           [] node.name = "DATETIME_DIFF" ->
                IF Len(node.args) < 3 THEN Raise(PyException("TypeError"))
                ELSE IF node.args[3].node # "String" THEN Raise(ValidationError)
                ELSE IF node.args[3].value \notin DatetimeUnits
                THEN Raise(ValidationError)
                ELSE LET first == recurse(node.args[1], env, values)
                     IN IF first.kind = "raise" THEN first
                        ELSE LET second == recurse(node.args[2], env,
                                                   first.value.values)
                             IN IF second.kind = "raise" THEN second
                                ELSE Ret(Sql(
                                  "EXTRACT(" \o node.args[3].value
                                    \o " FROM AGE(" \o first.value.text \o ", "
                                    \o second.value.text \o "))",
                                  second.value.values,
                                  first.value.names \cup second.value.names))
           [] OTHER -> Raise(ValidationError)
    [] OTHER -> Raise(ValidationError)

\* The mutant of to_sql that lowers the formula without resolving its type.
to_sql_Unchecked(ast, env) == recurse(ast, env, <<>>)

\* to_sql(formula, env) on formula.ast: the statement and the values.
to_sql(ast, env) ==
  LET typ == resolve_type(ast, env)
  IN IF typ.kind = "raise" THEN typ
     ELSE IF typ.value.typ.t # "concrete" THEN Raise(ValidationError)
     ELSE LET expr == recurse(typ.value.node, env, <<>>)
          IN IF expr.kind = "raise" THEN expr
             ELSE CASE typ.value.typ = TNumber ->
                         Ret([expr.value EXCEPT !.text = @ \o " <> 0"])
                    [] typ.value.typ = TString ->
                         Ret([expr.value EXCEPT !.text = @ \o " <> \"\""])
                    [] typ.value.typ = TBoolean -> Ret(expr.value)
                    [] OTHER -> Raise(ValidationError)

(***************************************************************************)
(* The query of a Fetch or a Delete (postgres_backend.py, _exec_op) and    *)
(* the calls of the formula functions.                                     *)
(***************************************************************************)
MaxLexemes == 3    \* longest generated formula, in lexemes

\* LandtableField.type_to_ast_type()
type_to_ast_type(field) ==
  CASE field.type = "number" -> Ret(TNumber)
    [] field.type \in {"short_text", "long_text", "email"} -> Ret(TString)
    [] field.type = "boolean" -> Ret(TBoolean)
    [] field.type = "datetime" -> Ret(TDatetime)
    [] OTHER -> Raise(PyException("Exception"))

\* The ASTTypeEnvironment _exec_op builds for a table: the replica column of
\* each exposed field with the field's formula type.
ASTTypeEnvironment(exposed_fields, replica_config) ==
  IF \E field \in exposed_fields : type_to_ast_type(field).kind = "raise"
  THEN Raise(PyException("Exception"))
  ELSE Ret([variables |->
              [c \in {field.column_name : field \in exposed_fields} |->
                 type_to_ast_type(
                   CHOOSE field \in exposed_fields : field.column_name = c).value],
            functions |-> SQL_FUNCTIONS,
            id_field |-> The(replica_config.id_column),
            created_time_field |-> The(replica_config.created_at_column)])

\* _exec_op from the replica configuration to the query text, for a Fetch or
\* a Delete: the column names the text holds in its projection, its
\* RETURNING list and its predicate, the system column it names, the text
\* of the predicate and the values list handed to connection.fetch.  Only a
\* RowTarget gets as far as a predicate (parse_target).
BuildQuery(op, exposed_fields, replica_config) ==
  IF replica_config.id_column = None \/ replica_config.created_at_column = None
  THEN Raise(PyException("Exception"))
  ELSE
    LET env == ASTTypeEnvironment(exposed_fields, replica_config)
        predicate == parse_target(op.target)
        columns == resolve_columns(exposed_fields, op.fields)
        db_columns == {x.column_name : x \in columns}
                        \cup replica_config.id_column
                        \cup replica_config.created_at_column
    IN IF env.kind = "raise" THEN env
       ELSE IF predicate.kind = "raise" THEN predicate
       ELSE Ret([projection |-> IF op.type = "delete" THEN {} ELSE db_columns,
                 returning |-> IF op.type = "delete" THEN db_columns ELSE {},
                 predicate |-> {env.value.id_field},
                 system |-> IF op.type = "delete" THEN {"ctid"} ELSE {},
                 where |-> env.value.id_field \o " = $1",
                 values |-> <<op.target.id>>])

\* The formulas handed to Formula: up to MaxLexemes lexemes with blanks
\* between them, and some longer ones.
FormulaLexemes ==
  {"1", "\"x\"", "{col_age}", "{col_name}", "{secret}", "+", "=", "!=",
   "(", ")", "NOW", "CREATED_TIME", "#", "{", ","}
RECURSIVE Phrases(_)
Phrases(n) ==
  IF n = 0 THEN {""}
  ELSE IF n = 1 THEN FormulaLexemes
  ELSE Phrases(n - 1)
       \cup {p \o " " \o l : p \in Phrases(n - 1), l \in FormulaLexemes}
FormulaInputs ==
  Phrases(MaxLexemes)
  \cup {"", " ", "NOW() = CREATED_TIME()", "CREATED_TIME(1) = NOW()",
        "DATETIME_DIFF(NOW(), CREATED_TIME(), \"days\")",
        "DATETIME_DIFF(NOW(), CREATED_TIME(), \"days\") > {col_age}",
        "FOO({col_age})", "[1, 2]", "{col_age} <= 2", "{col_name} & \"x\"",
        "{id} = 1", "{created_at} = NOW()", "1a", "{col_age",
        "{col_age} * 2", "1 / {col_age}", "1 - 2", "{col_age} < 2", "1 > 2",
        "2 >= {col_age}", "\"x\" = {col_name}", "1 + 2 * 3 <= 4 - {col_age}",
        "NOW(1)", "DATETIME_DIFF(NOW(), \"x\", \"days\")",
        "DATETIME_DIFF(NOW(), NOW())", "DATETIME_DIFF({col_age}, NOW(), 1)",
        "F()", "F(1,2)", "F(1,)", "F(1 2)", "F(,1)", "F(1,,2)",
        "!", "{#}", "\"#\"", "{a\\", "{a\\}b}", "{", "\"a"}

FmIdle == [pc |-> "idle", fn |-> "", code |-> "", exposed_fields |-> {},
           op |-> None, out |-> None]

\* Formula(code) is built, as the validation of a request body does.
FormulaNew(code) ==
  /\ fm.pc = "idle"
  /\ fm' = [FmIdle EXCEPT !.pc = "returned", !.fn = "Formula", !.code = code,
                          !.out = Some(Formula(code))]
  /\ UNCHANGED <<backendVars, stateVars, rc, idp, trc>>

\* lex(code) is called, as Formula.parse does first.
FormulaLex(code) ==
  /\ fm.pc = "idle"
  /\ fm' = [FmIdle EXCEPT !.pc = "returned", !.fn = "lex", !.code = code,
                          !.out = Some(lex(code))]
  /\ UNCHANGED <<backendVars, stateVars, rc, idp, trc>>

\* to_sql(formula, env) is called on a formula that was built, with the
\* environment of a table.
FormulaToSql(code, exposed_fields) ==
  /\ fm.pc = "idle"
  /\ Formula(code).kind = "return"
  /\ LET env == ASTTypeEnvironment(exposed_fields, ReplicaConfig)
     IN fm' = [FmIdle EXCEPT
                 !.pc = "returned", !.fn = "to_sql", !.code = code,
                 !.exposed_fields = exposed_fields,
                 !.out = Some(IF env.kind = "raise" THEN env
                              ELSE to_sql(Formula(code).value, env.value))]
  /\ UNCHANGED <<backendVars, stateVars, rc, idp, trc>>

\* formula.ast.resolve_type(env) is called on a formula that was built, as
\* to_sql does first.
FormulaResolve(code, exposed_fields) ==
  /\ fm.pc = "idle"
  /\ Formula(code).kind = "return"
  /\ LET env == ASTTypeEnvironment(exposed_fields, ReplicaConfig)
     IN fm' = [FmIdle EXCEPT
                 !.pc = "returned", !.fn = "resolve_type", !.code = code,
                 !.exposed_fields = exposed_fields,
                 !.out = Some(IF env.kind = "raise" THEN env
                              ELSE resolve_type(Formula(code).value, env.value))]
  /\ UNCHANGED <<backendVars, stateVars, rc, idp, trc>>

\* _exec_op builds the query of a Fetch or a Delete.
QueryBuild(op, exposed_fields) ==
  /\ fm.pc = "idle"
  /\ fm' = [FmIdle EXCEPT
              !.pc = "returned", !.fn = "BuildQuery",
              !.exposed_fields = exposed_fields, !.op = Some(op),
              !.out = Some(BuildQuery(op, exposed_fields, ReplicaConfig))]
  /\ UNCHANGED <<backendVars, stateVars, rc, idp, trc>>

FormulaDone ==
  /\ fm.pc = "returned"
  /\ fm' = FmIdle
  /\ UNCHANGED <<backendVars, stateVars, rc, idp, trc>>

\* A field of a type that type_to_ast_type does not know.
UnsupportedField == LandtableField("photo", "F3", "attachment", "col_photo")

\* The Fetch and Delete operations whose query is built.
QueryOps ==
  {[o EXCEPT !.fields = f] :
     o \in {Fetch(RowTarget("r1"), FailureStrategy(None, None)),
            Delete(RowTarget("r1"), FailureStrategy(None, None)),
            Fetch(FormulaTarget("{col_age} = 1"), FailureStrategy(None, None)),
            Delete(FormulaTarget("{secret} = 1"), FailureStrategy(None, None))},
     f \in FieldsArgs}

FormulaNext ==
  \/ \E code \in FormulaInputs : FormulaNew(code)
  \/ \E code \in FormulaInputs : FormulaLex(code)
  \/ \E code \in FormulaInputs, exposed_fields \in SUBSET AllFields :
       FormulaToSql(code, exposed_fields)
  \/ \E code \in FormulaInputs, exposed_fields \in SUBSET AllFields :
       FormulaResolve(code, exposed_fields)
  \/ \E op \in QueryOps,
        exposed_fields \in SUBSET (AllFields \cup {UnsupportedField}) :
       QueryBuild(op, exposed_fields)
  \/ FormulaDone

(***************************************************************************)
(* Tracer and CONTEXTVAR (tracing.py).                                     *)
(***************************************************************************)
MaxTracers == 3    \* Tracer objects installed one inside the other
MaxEvents == 2     \* events one Tracer records

\* The places of the core that call Tracer.from_context().
TracedOperations ==
  {"fetch_database", "fetch_workspace", "fetch_table", "BackendResolver",
   "connect", "exec_transaction"}

\* ctx: the values CONTEXTVAR.set has stacked in the current context, the
\* last one being the value of CONTEXTVAR, each a Tracer with the number of
\* events it holds; <<>> is the variable with no value (it has no default).
TrcInit == [ctx |-> <<>>, call |-> "", had |-> FALSE, out |-> None]

\* Tracer.from_context(): CONTEXTVAR.get(), which raises LookupError when
\* the variable has no value in the context.
from_context(ctx) ==
  IF ctx = <<>> THEN Raise(PyException("LookupError"))
  ELSE Return("Tracer", {})

\* Tracer(): __init__ sets CONTEXTVAR to the new tracer.
TracerNew ==
  /\ trc.call = ""
  /\ Len(trc.ctx) < MaxTracers
  /\ trc' = [trc EXCEPT !.ctx = Append(trc.ctx, 0)]
  /\ UNCHANGED <<backendVars, stateVars, rc, idp, fm>>

\* tracer.finish() of the installed tracer: CONTEXTVAR.reset(context_token)
\* brings back what the variable held before.
TracerFinish ==
  /\ trc.call = ""
  /\ trc.ctx # <<>>
  /\ trc' = [trc EXCEPT !.ctx = SubSeq(trc.ctx, 1, Len(trc.ctx) - 1)]
  /\ UNCHANGED <<backendVars, stateVars, rc, idp, fm>>

\* A traced operation of the core runs: it takes the tracer from the
\* context, the tracer records the event, and the operation goes on.
TracedCall(op) ==
  /\ trc.call = ""
  /\ LET tracer == from_context(trc.ctx)
         n == Len(trc.ctx)
     IN trc' = [ctx |-> IF tracer.kind = "return" /\ tracer.value = "Tracer"
                             /\ trc.ctx[n] < MaxEvents
                        THEN [trc.ctx EXCEPT ![n] = @ + 1] ELSE trc.ctx,
                call |-> op,
                had |-> trc.ctx # <<>>,
                out |-> Some(IF tracer.kind = "raise" THEN tracer.exc
                             ELSE Returned)]
  /\ UNCHANGED <<backendVars, stateVars, rc, idp, fm>>

TracedDone ==
  /\ trc.call # ""
  /\ trc' = [trc EXCEPT !.call = "", !.had = FALSE, !.out = None]
  /\ UNCHANGED <<backendVars, stateVars, rc, idp, fm>>

TracerNext ==
  \/ TracerNew
  \/ TracerFinish
  \/ \E op \in TracedOperations : TracedCall(op)
  \/ TracedDone

PureInit ==
  /\ rc = RcIdle
  /\ idp = IdpIdle
  /\ trc = TrcInit
  /\ fm = FmIdle

(***************************************************************************)
(* The specifications.                                                     *)
(***************************************************************************)
\* exec_transaction, with LandtableState as constructed.
TxnInit == BackendInit /\ StateInit /\ PureInit
SpecTxn == TxnInit /\ [][BackendNext]_vars

\* fetch_connection_pool under concurrent callers.
SpecPool == TxnInit /\ [][PoolNext]_vars

\* LandtableTable.resolve_columns on its own.
SpecResolve == TxnInit /\ [][ResolveNext]_vars

\* The Identifier parsers on their own.
SpecIdentifier == TxnInit /\ [][IdentifierNext]_vars

\* The tracer of the context on its own.
SpecTracer == TxnInit /\ [][TracerNext]_vars

\* The formula functions and the query building on their own.
SpecFormula == TxnInit /\ [][FormulaNext]_vars

\* LandtableState, with the backend as constructed.
SpecState == TxnInit /\ [][StateNext]_vars

(***************************************************************************)
(* Properties of exec_transaction (checked under SpecTxn).                 *)
(***************************************************************************)
\* Operation i of the running transaction was started.
Reached(i) == \E k \in 1..Len(tx.log) : tx.log[k].ev = "start" /\ tx.log[k].op = i
NotImplementedTypes == {"create", "update", "updateByFormula"}

C3_ConnectionReturned == tx.pc \in {"idle", "done"} => checkedOut = {}

\* C4: a Create, Update or UpdateByFormula that is reached raises
\* NotImplementedError: there is no result for it, the call does not
\* return, and the transaction is not committed.
C4_NotImplemented ==
  \A i \in 1..Len(tx.ops) :
    (Reached(i) /\ tx.ops[i].type \in NotImplementedTypes) =>
      /\ tx.failed = i
      /\ tx.err = Some(PyException("NotImplementedError"))
      /\ \A r \in 1..Len(tx.results) : tx.results[r].op # i
      /\ tx.out # Some(Returned)
      /\ tx.phys # "committed"

\* A transaction whose Update was reached has ended with the error.
C4_Witness ==
  /\ tx.pc = "done"
  /\ Reached(1)
  /\ tx.ops[1].type = "update"
  /\ tx.out = Some(PyException("NotImplementedError"))

\* C5: a Fetch or Delete whose failure_strategy.exec_target is set while
\* failure_strategy.fail_type is not is rejected with BAD_REQUEST (400).
C5_ExecTargetNeedsFailType ==
  \A i \in 1..Len(tx.ops) :
    ( /\ Reached(i)
      /\ tx.ops[i].type \in {"fetch", "delete"}
      /\ tx.ops[i].failure_strategy.exec_target # None
      /\ tx.ops[i].failure_strategy.fail_type = None ) =>
      /\ tx.failed = i
      /\ tx.err = Some(APIBadRequestException)

\* C6: a Create or Update whose row has a key that names no exposed field
\* is rejected with BAD_REQUEST (400).
C6_UnknownRowKey ==
  \A i \in 1..Len(tx.ops) :
    ( /\ Reached(i)
      /\ tx.ops[i].type \in {"create", "update"}
      /\ tx.ops[i].row \ ExposedNames # {} ) =>
      /\ tx.failed = i
      /\ tx.err = Some(APIBadRequestException)

(***************************************************************************)
(* Properties of LandtableState (checked under SpecState).                 *)
(***************************************************************************)
\* The call of the request task has ended by returning an object.
Succeeded == req.pc = "done" /\ The(req.out).status = "ok"
ReqKind == The(req.call).kind
ReqResult == The(The(req.out).value)
\* The age, at the lookup, of the entry the lookup found.
FoundAge == req.t0 - The(req.found).created_at

\* C7 as stated: whenever fetch_workspace has succeeded with W, the cache
\* holds under str(W.id) and under W.name one and the same entry, of value
\* W.
C7_BothKeysHoldResult ==
  (Succeeded /\ ReqKind = "workspace") =>
    /\ caches["workspace"][ReqResult.id] # None
    /\ caches["workspace"][ReqResult.id] = caches["workspace"][ReqResult.name]
    /\ The(caches["workspace"][ReqResult.id]).inner = ReqResult

\* C7, amended: the step in which fetch_workspace, having missed the cache,
\* returns a workspace W leaves under str(W.id) and under W.name the same
\* entry, of value W and created when the answer arrived (the two inserts
\* and the return are one step of the task, with no await between them);
\* and a lookup that finds an entry younger than the TTL returns that
\* entry's value without a read of the store.
C7_MissInsertsBothHitReadsNothing ==
  /\ [][(req.pc = "resume" /\ req'.pc = "done" /\ ReqKind = "workspace"
            /\ req.resp # None) =>
          LET W == The(req.resp)
          IN /\ req'.out = Some(Ok(W))
             /\ caches'["workspace"][W.id] = Some(CachedEntry(now, W))
             /\ caches'["workspace"][W.name] = Some(CachedEntry(now, W))]_vars
  /\ [](  (req.pc = "done" /\ ReqKind = "workspace" /\ req.found # None
            /\ FoundAge < cache_expiry_time) =>
           /\ req.reads = 0
           /\ req.out = Some(Ok(The(req.found).inner)))

\* A lookup by name, five seconds after the miss that stored the entry
\* under both keys, is answered from the cache.
C7_Witness ==
  /\ Succeeded
  /\ The(req.call).handle.s = "a"
  /\ req.path = "hit"
  /\ req.reads = 0
  /\ FoundAge = TickStep
  /\ caches["workspace"][WorkspaceId] = caches["workspace"]["a"]

\* C29: between connect() and shutdown() the watcher task is running,
\* whatever events it has received, so that a later event finds it there.
C29_WatcherKeepsRunning ==
  life.phase = "connected" => life.task = "running"

\* C26: fetch_table(W, handle) returns only a table stored under W: a
\* fetch_table for the second workspace, which holds no table, ends with
\* NOT_FOUND whatever an earlier fetch_table for the first workspace has
\* cached.
C26_TableOfItsWorkspace ==
  (req.pc = "done" /\ ReqKind = "table"
     /\ The(req.call).ws = OtherWorkspaceId) =>
    req.out = Some(NotFound)

\* C8 as stated: a lookup that finds an entry aged 10 seconds or more does
\* not return it, reads the store, and leaves under the looked-up key an
\* entry with a later created_at.
C8_ExpiredIsReplaced ==
  (req.pc = "done" /\ req.found # None /\ FoundAge >= cache_expiry_time) =>
    /\ req.path = "miss"
    /\ req.reads >= 1
    /\ Lookup(ReqKind, The(req.call).handle.s) # None
    /\ The(Lookup(ReqKind, The(req.call).handle.s)).created_at
         > The(req.found).created_at

\* C8, amended: an entry aged 10 seconds or more is never returned: the
\* lookup is a miss that reads the store, and when the read finds the
\* object, the entries under the object's id and name (for a database,
\* under the requested id) are replaced by one created when the answer
\* arrived.  When the object is gone the expired entry stays.
C8_ExpiredIsMiss ==
  /\ [](  (req.pc # "idle" /\ req.path = "hit") =>
           /\ req.found # None
           /\ FoundAge < cache_expiry_time)
  /\ [](  (req.pc = "done" /\ req.found # None
            /\ FoundAge >= cache_expiry_time) =>
           /\ req.path = "miss"
           /\ req.reads >= 1
           /\ Succeeded =>
                req.t1 >= The(req.found).created_at + cache_expiry_time)
  /\ [][(req.pc = "resume" /\ req'.pc = "done" /\ req.found # None
            /\ FoundAge >= cache_expiry_time) =>
          IF req.resp = None
          THEN /\ req'.out = Some(NotFound)
               /\ caches' = caches
          ELSE \A k \in (IF ReqKind = "database" THEN {The(req.call).handle.s}
                         ELSE {The(req.resp).id, The(req.resp).name}) :
                 caches'[ReqKind][k] = Some(CachedEntry(now, The(req.resp)))]_vars

\* A lookup found an entry of age 10, read the store and stored a new
\* entry under the key.
C8_Witness ==
  /\ Succeeded
  /\ req.found # None
  /\ FoundAge = cache_expiry_time
  /\ req.path = "miss"
  /\ req.reads >= 1
  /\ Lookup(ReqKind, The(req.call).handle.s)
       = Some(CachedEntry(req.t0, ReqResult))

\* C9: when the watcher processes an event on workspaces/<id>/meta that
\* carries value v, the entry fetch_workspace(<id>) looks up, the one under
\* <id>, becomes v with created_at the processing time.
C9_WatcherRefreshesLookedUpEntry ==
  [][ ( /\ life.task = "running"
        /\ events # <<>>
        /\ events' = Tail(events)
        /\ Head(events).value # None
        /\ WatchSlot(Head(events).key).cache = "workspace" )
      => caches'["workspace"][Head(events).key[2]]
           = Some(CachedEntry(now, The(Head(events).value))) ]_vars

\* C10: the client of the store is never closed while the watcher task has
\* not ended.
C10_WatcherEndsBeforeClose ==
  ~(life.db = "closed" /\ life.task \in {"running", "cancelling"})

\* C11: whenever a write changes a cache entry, the entry left is the
\* whole entry of that write (its value with its own timestamp, the time
\* of the write), and its created_at is not older than that of the entry
\* it replaces, whether the write is the watcher's or a miss's insert.
C11_LastWriteWholeAndNewer ==
  [][ \A c \in Kinds, k \in CacheKeys :
        caches'[c][k] # caches[c][k] =>
          /\ caches'[c][k] # None
          /\ The(caches'[c][k]).created_at = now
          /\ caches[c][k] # None =>
               The(caches'[c][k]).created_at >= The(caches[c][k]).created_at
          /\ The(caches'[c][k]).inner =
               IF req' # req THEN The(req.resp) ELSE The(Head(events).value)
    ]_vars

\* A miss stored its entry under the workspace's name, which is the key
\* the watcher writes, and the watcher's update then replaced it with a
\* newer created_at.
C11_Witness ==
  /\ Succeeded
  /\ ReqKind = "workspace"
  /\ req.path = "miss"
  /\ ReqResult.name = BytesStr(WorkspaceId)
  /\ caches["workspace"][BytesStr(WorkspaceId)] # None
  /\ The(caches["workspace"][BytesStr(WorkspaceId)]).inner = ReqResult
  /\ The(caches["workspace"][BytesStr(WorkspaceId)]).created_at > req.t1

\* The formulas a Fetch or a Delete embeds, and whether one type-checks in
\* the environment of the table.
EmbeddedFormulas(op) ==
  {op.sort, op.failure_strategy.order_by}
    \cup (IF op.target.kind = "FormulaTarget" THEN {op.target.formula} ELSE {})
TypeChecks(code) ==
  LET formula == Formula(code)
      env == ASTTypeEnvironment(AllFields, ReplicaConfig)
  IN /\ formula.kind = "return"
     /\ env.kind = "return"
     /\ resolve_type(formula.value, env.value).kind = "return"

IsWrite(op) == op.type # "fetch"

C19_RoundTripAndRejects ==
  idp.pc = "returned" =>
    LET out == The(idp.out)
        s == idp.to_parse
    IN /\ idp.id # None =>
            /\ out.kind = "return"
            /\ Identifier_eq(out.value, The(idp.id))
            /\ Identifier_eq(The(idp.id), out.value)
       /\ Len(s) # 36 => out.kind = "raise"
       /\ (Len(s) >= 4 /\ CharAt(s, 4) # ":") => out.kind = "raise"
       /\ (idp.namespace # None /\ Take(s, 3) # The(idp.namespace)) =>
            out.kind = "raise"

\* The string form of Identifier("lrw", 123e4567...) has been parsed back to
\* an identifier.
C19_Witness ==
  /\ idp.pc = "returned"
  /\ idp.id = Some(Identifier("lrw", "123e4567e89b12d3a456426614174000"))
  /\ idp.to_parse = "lrw:123e4567e89b12d3a456426614174000"
  /\ The(idp.out).kind = "return"

(***************************************************************************)
(* Properties of the formula functions and of the query (checked under     *)
(* SpecFormula).                                                           *)
(***************************************************************************)
\* The columns a query on a table may name: the replica column of each
\* exposed field, the id column and the created-at column.
AllowedColumns(exposed_fields) ==
  {field.column_name : field \in exposed_fields}
    \cup ReplicaConfig.id_column \cup ReplicaConfig.created_at_column

\* C13: every column name in the SQL of a Fetch or a Delete (projection,
\* RETURNING list, variables of the predicate) is the replica column of an
\* exposed field, the id column or the created-at column; the only other
\* name is ctid, and only in a Delete.
C13_OnlyExposedColumns ==
  (fm.pc = "returned" /\ The(fm.out).kind = "return") =>
    LET out == The(fm.out).value
    IN /\ fm.fn = "to_sql" => out.names \subseteq AllowedColumns(fm.exposed_fields)
       /\ fm.fn = "BuildQuery" =>
            /\ (out.projection \cup out.returning \cup out.predicate)
                 \subseteq AllowedColumns(fm.exposed_fields)
            /\ out.system \subseteq
                 (IF The(fm.op).type = "delete" THEN {"ctid"} ELSE {})

\* A formula that names an exposed column and the creation time has been
\* lowered for a table that exposes only `age`.
C13_Witness ==
  /\ fm.pc = "returned"
  /\ fm.fn = "to_sql"
  /\ fm.code = "DATETIME_DIFF(NOW(), CREATED_TIME(), \"days\") > {col_age}"
  /\ fm.exposed_fields = {LandtableField("age", "F2", "number", "col_age")}
  /\ The(fm.out).kind = "return"
  /\ The(fm.out).value.names = {"col_age", "created_at"}

\* The number of places in text where pat starts.
Occurrences(text, pat) ==
  Cardinality({i \in 1..Len(text) : StartsWith(text, i, pat)})
\* The $N placeholders of text index the list values: each of $1..$n, n the
\* length of values, occurs exactly once, and no other $ occurs.
PlaceholdersIndex(text, values) ==
  /\ \A n \in 1..Len(values) : Occurrences(text, "$" \o DigitStr(n)) = 1
  /\ Occurrences(text, "$") = Len(values)

\* C21: the query of a Fetch or a Delete whose target is a formula that
\* to_sql lowers in the table's environment has that lowering as its
\* predicate, and the $N of the predicate index, from 1 and in the order
\* of their insertion, the values list handed to the query.
C21_PlaceholdersIndexValues ==
  (fm.pc = "returned" /\ fm.fn = "BuildQuery"
     /\ The(fm.op).target.kind = "FormulaTarget") =>
    LET env == ASTTypeEnvironment(fm.exposed_fields, ReplicaConfig)
        formula == Formula(The(fm.op).target.formula)
        lowered == to_sql(formula.value, env.value)
    IN (env.kind = "return" /\ formula.kind = "return"
          /\ lowered.kind = "return") =>
         /\ The(fm.out).kind = "return"
         /\ The(fm.out).value.where = lowered.value.text
         /\ The(fm.out).value.values = lowered.value.values
         /\ PlaceholdersIndex(The(fm.out).value.where, The(fm.out).value.values)

\* The SQL symbol of each formula operator, as C22 lists them.
SqlSymbol ==
  [MUL |-> "*", DIV |-> "/", PLUS |-> "+", MINUS |-> "-", EQ |-> "=",
   LT |-> "<", GT |-> ">", LE |-> ">=", GE |-> "<="]

\* C22: a formula whose type-checked tree is a BinOp of one of the operators
\* * / + - = < > <= >= is lowered to "(<left> <sym> <right>)", left and
\* right being the lowerings of its operands in that order (followed by
\* " <> 0" when the formula is a number), with sym the operator itself
\* except that <= gives >= and >= gives <=.
C22_BinOpFragment ==
  (fm.pc = "returned" /\ fm.fn = "to_sql") =>
    LET env == ASTTypeEnvironment(fm.exposed_fields, ReplicaConfig)
        typ == resolve_type(Formula(fm.code).value, env.value)
        node == typ.value.node
        left == recurse(node.left, env.value, <<>>)
        right == recurse(node.right, env.value, left.value.values)
    IN (/\ env.kind = "return" /\ typ.kind = "return"
        /\ node.node = "BinOp" /\ node.op \in DOMAIN SqlSymbol
        /\ left.kind = "return" /\ right.kind = "return") =>
         /\ The(fm.out).kind = "return"
         /\ The(fm.out).value.text =
              "(" \o left.value.text \o " " \o SqlSymbol[node.op] \o " "
                \o right.value.text \o ")"
                \o (IF typ.value.typ = TNumber THEN " <> 0" ELSE "")
         /\ The(fm.out).value.values = right.value.values

\* "{col_age} <= 2" has been lowered to "(col_age >= $1)".
C22_Witness ==
  /\ fm.pc = "returned"
  /\ fm.fn = "to_sql"
  /\ fm.code = "{col_age} <= 2"
  /\ The(fm.out) = Ret(Sql("(col_age >= $1)", <<"2">>, {"col_age"}))

\* C23: when a call of a function of SQL_FUNCTIONS is type-checked (its
\* arguments having types that can be compared with the expected ones), a
\* call with another number of arguments than expected fails, and
\* otherwise the call node's args hold, for each argument, the
\* argument itself when its type is a subtype of the expected type and
\* Cast(argument, expected type) when it is not.
C23_CastReplacesArguments ==
  (fm.pc = "returned" /\ fm.fn = "resolve_type") =>
    LET env == ASTTypeEnvironment(fm.exposed_fields, ReplicaConfig).value
        ast == Formula(fm.code).value
        args == [i \in 1..Len(ast.args) |-> resolve_type(ast.args[i], env)]
        expected == SQL_FUNCTIONS[ast.name].expected_types
    IN (/\ ast.node = "FunctionCall" /\ ast.name \in DOMAIN SQL_FUNCTIONS
        /\ FirstRaise(args) = 0) =>
         IF Len(args) # Len(expected)
         THEN The(fm.out).kind = "raise"
         ELSE (\A i \in 1..Len(args) :
                 is_subset(args[i].value.typ, expected[i]).kind = "return") =>
              /\ The(fm.out).kind = "return"
              /\ \A i \in 1..Len(args) :
                   The(fm.out).value.node.args[i] =
                     IF is_subset(args[i].value.typ, expected[i]).value
                     THEN args[i].value.node
                     ELSE Cast(args[i].value.node, expected[i])

\* C24: Formula accepts the argument list of a call only when the arguments
\* are separated by commas and no comma trails: "F()" and "F(1,2)" give a
\* FunctionCall of no and of two arguments, "F(1,)" and "F(1 2)" are
\* rejected.
C24_CommaSeparatedArguments ==
  (fm.pc = "returned" /\ fm.fn = "Formula") =>
    /\ fm.code = "F()" => The(fm.out) = Ret(FunctionCall("F", <<>>))
    /\ fm.code = "F(1,2)" =>
         The(fm.out) = Ret(FunctionCall("F", <<Number("1"), Number("2")>>))
    /\ fm.code \in {"F(1,)", "F(1 2)"} => The(fm.out).kind = "raise"

\* C25: lex never returns a token list for an input with a character that
\* matches no token kind (the list would hold that character as a token of
\* no kind of the language, MISMATCH): on "#", "!" and "1a" lex fails.
C25_UnmatchedCharacterIsLexError ==
  (fm.pc = "returned" /\ fm.fn = "lex") =>
    /\ The(fm.out).kind = "return" =>
         \A i \in 1..Len(The(fm.out).value) :
           The(fm.out).value[i].kind # "MISMATCH"
    /\ fm.code \in {"#", "!", "1a"} => The(fm.out).kind = "raise"

\* C28: lex ends, for every input, with a token list or with its lex error
\* (the Exception "Invalid character at position ..."), and never by reading
\* the input past its end; an input with an unclosed "{", or ending in a
\* backslash inside braces, ends with the lex error.
C28_LexEndsInTokensOrLexError ==
  (fm.pc = "returned" /\ fm.fn = "lex") =>
    /\ \/ The(fm.out).kind = "return"
       \/ The(fm.out) = Raise(PyException("Exception"))
    /\ fm.code \in {"{", "{col_age", "{a\\"} =>
         The(fm.out) = Raise(PyException("Exception"))

\* A tree of number and string literals, variables and binary operations.
RECURSIVE PlainBinary(_)
PlainBinary(node) ==
  CASE node.node \in {"Number", "String", "Variable"} -> TRUE
    [] node.node = "BinOp" -> PlainBinary(node.left) /\ PlainBinary(node.right)
    [] OTHER -> FALSE

\* C30: a formula of literals, declared variables and binary operators that
\* type-checks to NUMBER, STRING or BOOLEAN is lowered by to_sql without
\* an error, whichever of * / + - & = != < > <= >= it uses.
C30_EveryAcceptedOperatorLowers ==
  (fm.pc = "returned" /\ fm.fn = "to_sql") =>
    LET env == ASTTypeEnvironment(fm.exposed_fields, ReplicaConfig)
        ast == Formula(fm.code).value
        typ == resolve_type(ast, env.value)
    IN (/\ env.kind = "return" /\ PlainBinary(ast) /\ typ.kind = "return"
        /\ typ.value.typ \in {TNumber, TString, TBoolean}) =>
         The(fm.out).kind = "return"

\* C27: on a table that exposes a field of a type with no formula type, a
\* Fetch or a Delete by RowTarget, which has no formula that could name
\* the field, gets its query all the same.
C27_UnsupportedFieldOnlyWhenReferenced ==
  (fm.pc = "returned" /\ fm.fn = "BuildQuery"
     /\ UnsupportedField \in fm.exposed_fields
     /\ The(fm.op).target.kind = "RowTarget") =>
    The(fm.out).kind = "return"

\* C16: every failure of a formula that its text causes, when the formula is
\* built (lex error, parse error, empty formula) or lowered (type error), is
\* an error of kind BAD_REQUEST with code 400.
C16_FormulaFailuresAreBadRequest ==
  (fm.pc = "returned" /\ fm.fn \in {"Formula", "to_sql"}
     /\ The(fm.out).kind = "raise") =>
    (The(fm.out).exc.type = "BAD_REQUEST" /\ The(fm.out).exc.code = 400)

(***************************************************************************)
(* Properties of Tracer.from_context (checked under SpecTracer).           *)
(***************************************************************************)
\* C20: a traced operation of the core that runs in a context where no
\* tracer is installed gets a tracer that does nothing and goes on normally.
C20_WorksWithoutTracer ==
  (trc.call # "" /\ ~trc.had) => trc.out = Some(Returned)

(***************************************************************************)
(* Properties of fetch_connection_pool (checked under SpecPool).           *)
(***************************************************************************)
\* C12: a call that starts after a call for the same url has completed
\* returns the pool that call returned and builds none, and no url ever has
\* more than one pool built for it.
C12_OnePoolPerUrl ==
  /\ \A c \in Callers :
       (fcp.task[c].pc = "returned" /\ fcp.task[c].after # None) =>
         /\ fcp.task[c].got = fcp.task[c].after
         /\ ~fcp.task[c].built
  /\ \A u \in Urls : Cardinality(fcp.made[u]) <= 1

(***************************************************************************)
(* Properties of resolve_columns (checked under SpecResolve).              *)
(***************************************************************************)
\* C14: resolve_columns(fields) returns all exposed fields when fields is
\* null, and otherwise exactly the exposed fields whose name or whose
\* identifier string lfd:<hex> is in the set.
C14_ByNameOrIdentifierString ==
  rc.pc = "returned" =>
    rc.out = IF rc.fields = None THEN rc.exposed_fields
             ELSE {field \in rc.exposed_fields :
                     \/ field.name \in The(rc.fields)
                     \/ PyStr(Identifier_repr(field.id)) \in The(rc.fields)}

====
